---- MODULE Spec2Model ----
(***************************************************************************)
(* Model of the shared-state store (src/core/state.py, StateManager) and   *)
(* of the agent scheduler (src/core/scheduler.py, AgentScheduler) of the   *)
(* decarbonization system.                                                 *)
(*                                                                         *)
(* Coroutines are modelled statement by statement: another coroutine may   *)
(* run between any two statements of a handler.  The asyncio event loop    *)
(* switches coroutines only at an await, so every interleaving the loop    *)
(* can produce is an interleaving of the model.                            *)
(*                                                                         *)
(* Python list objects live in `heap`; a record holds the identity of its  *)
(* lists, so that a shallow copy (model_copy()) shares them.               *)
(***************************************************************************)
EXTENDS Integers, Sequences, FiniteSets, TLC

VARIABLES
    state,        \* StateManager._state: the live SystemState (lists by identity)
    heap,         \* the list objects reachable from the store and from snapshots
    now,          \* the value datetime.now() returned last (wall-clock time)
    lockOwner,    \* StateManager._lock: the coroutine holding it, or "none"
    lockWaiters,  \* StateManager._lock: the coroutines suspended in acquire(), FIFO
    subscribers,  \* StateManager._subscribers
    pc,           \* per store client: the statement it is at
    op,           \* per store client: the call it is in and its arguments
    snap,         \* per store client: the snapshot its last get_state returned
    obsSnap,      \* per observer: the snapshot of its last notification
    nDec,         \* number of add_decision calls made so far
    nAlert,       \* number of add_alert calls made so far
    calls,        \* number of store calls made so far (bounds the exploration)
    hist,         \* history of the calls: what the claims compare the store with
    agents,       \* AgentScheduler.agents: per name the registered instance, 0 if none
    tasks,        \* AgentScheduler.tasks: per name the recorded task, 0 if none
    taskSt,       \* per asyncio task: free, running, cancelling, done, failed, cancelled
    taskName,     \* per asyncio task: the agent whose start() it runs
    running,      \* AgentScheduler.running
    shutdownEvent, \* AgentScheduler._shutdown_event
    handlers,     \* whether setup_signal_handlers has installed the signal handlers
    signals,      \* number of termination signals received so far
    schedCalls,   \* number of scheduler calls made so far (bounds the exploration)
    proc,         \* per coroutine using the scheduler: where it is and its locals
    workerPc,     \* per asyncio task: where the agent's start() coroutine is
    agentRunning, \* per agent instance: its own flag self.running
    actionOf,     \* per decision passed to add_decision: its action code
    execPc,       \* ExecutorAgent._execute_action: idle, read (after get_state is
                  \* called), write (after update_state is called)
    applied,      \* per decision: the executor cycles that changed the state for it
    cycles        \* number of executor cycles begun so far (bounds the exploration)

storeVars == <<state, heap, now, lockOwner, lockWaiters, subscribers, pc, op,
               snap, obsSnap, nDec, nAlert, calls, hist>>

schedVars == <<agents, tasks, taskSt, taskName, running, shutdownEvent, handlers,
               signals, schedCalls, proc>>

execVars == <<actionOf, execPc, applied, cycles>>

agentVars == <<workerPc, agentRunning, execVars>>

vars == <<storeVars, schedVars, agentVars>>

(***************************************************************************)
(* Bounds of the exploration and program constants.                        *)
(***************************************************************************)
MaxCalls == 2
MaxUpdateCalls == 3
MaxDecisions == 102
MaxAlerts == 52
MaxNotifyCalls == 2
MaxObservers == 2
MaxTasks == 3
MaxSchedCalls == 3
MaxSignals == 2
MaxOpsCalls == 1
MaxLifeCalls == 2
MaxExecCalls == 3
MaxCycles == 2
MaxSetCalls == 2

DecisionHistoryLimit == 100
AlertHistoryLimit == 50

Clients == {"c1", "c2", "c3"}
Writers == {"c1", "c2"}
\* The callback of o1 returns; the callback of o2 raises an Exception every time.
Observers == {"o1", "o2"}
Raising == {"o2"}
ScalarValues == {10, 20}

\* The values datetime.now() returns: local wall-clock time, which is not
\* monotonic (it steps back when the clock is adjusted or daylight saving ends).
Times == {0, 1}

ListFields == {"decision_history", "active_alerts", "alert_history"}
ScalarFields == {"battery_soc", "load_kwh"}

\* Attributes of a SystemState object that are no fields: methods of BaseModel.
Methods == {"model_copy"}

(***************************************************************************)
(* SystemState and its copies.                                             *)
(***************************************************************************)
SystemState ==
    [battery_soc |-> 50, load_kwh |-> 0, timestamp |-> 0, current_decision |-> 0,
     decision_history |-> 1, active_alerts |-> 2, alert_history |-> 3]

InitHeap == [i \in 1..3 |-> <<>>]

\* The record with every list identity replaced by the list's content.
Deref(rec, h) ==
    [rec EXCEPT !.decision_history = h[@], !.active_alerts = h[@],
                !.alert_history = h[@]]

Refs(rec) == {rec[f] : f \in ListFields}

Held(sn, ob) ==
    UNION ({Refs(sn[c][1]) : c \in {x \in Clients : sn[x] # <<>>}}
           \cup {Refs(ob[o][1]) : o \in {x \in Observers : ob[x] # <<>>}})

\* Garbage collection: only the lists the store or a held snapshot refers to remain.
Collect(h, st, sn, ob) ==
    [i \in (DOMAIN h) \cap (Refs(st) \cup Held(sn, ob)) |-> h[i]]

NewList(h) == CHOOSE i \in 1..(Cardinality(DOMAIN h) + 1) : i \notin DOMAIN h

Alloc(h, content) == (NewList(h) :> content) @@ h

\* list.append(x): in place.
ListAppend(h, id, x) == [h EXCEPT ![id] = Append(@, x)]

\* Mutant: lst[:n], the newest entries are dropped.
FirstN(s, n) == IF Len(s) <= n THEN s ELSE SubSeq(s, 1, n)

\* lst[-n:]
LastN(s, n) == IF Len(s) <= n THEN s ELSE SubSeq(s, Len(s) - n + 1, Len(s))

\* hasattr is true of the fields and of every other attribute of the object.
hasattr(st, key) == key \in (DOMAIN st) \cup Methods

\* BaseModel.__setattr__ raises ValueError for a name that is no field.
SetattrRaises(st, key) == key \notin DOMAIN st

\* Mutant: the state is rebuilt from the defaults and the one field.
SetattrOnDefaults(st, key, value) ==
    [f \in DOMAIN st |->
       IF f = key THEN value ELSE IF f \in ScalarFields THEN SystemState[f] ELSE st[f]]

\* Mutant: the copy carries the default battery_soc.
CopyWithDefaults(st) == [st EXCEPT !.battery_soc = SystemState.battery_soc]

\* Mutant: assigning a field other than battery_soc zeroes battery_soc.
SetattrZeroingBattery(st, key, value) ==
    [st EXCEPT !.battery_soc = 0, ![key] = value]

setattr(st, key, value) == [st EXCEPT ![key] = value]

\* SystemState.model_copy(): deep=False, the copy shares the list objects.
model_copy(st) == st

(***************************************************************************)
(* asyncio.Lock: acquire() returns at once when the lock is free and       *)
(* nobody waits; release() wakes the first waiter.                         *)
(***************************************************************************)
\* Mutant: no mutual exclusion.
NoLock == TRUE

LockFree == lockOwner = "none" /\ lockWaiters = <<>>

\* Mutant: release() wakes the waiter that came last.
LastWaiter(w) == w[Len(w)]

NextWaiter(w) == Head(w)

Without(w, c) == SelectSeq(w, LAMBDA x : x # c)

Entry(kind) ==
    CASE kind = "get_state" -> "copy"
      [] kind = "update_state" -> "setattr"
      [] kind = "add_decision" -> "set_current"
      [] kind = "add_alert" -> "append_active"
      [] kind = "reentrant" -> "callback"
      [] OTHER -> "pass"

NoOp == [kind |-> "none", delta |-> <<>>, arg |-> 0, idx |-> 0]

\* `async with self._lock:` reached by client c calling o.
Acquire(c, o) ==
    /\ pc[c] = "idle"
    /\ op' = [op EXCEPT ![c] = o]
    /\ IF LockFree
       THEN /\ lockOwner' = c
            /\ pc' = [pc EXCEPT ![c] = Entry(o.kind)]
            /\ UNCHANGED lockWaiters
       ELSE /\ lockWaiters' = Append(lockWaiters, c)
            /\ pc' = [pc EXCEPT ![c] = "waiting"]
            /\ UNCHANGED lockOwner

\* The waiter woken by release() resumes inside the critical section.
Wake(c) ==
    /\ pc[c] = "waiting"
    /\ lockOwner = "none"
    /\ lockWaiters # <<>>
    /\ c = NextWaiter(lockWaiters)
    /\ lockOwner' = c
    /\ lockWaiters' = Without(lockWaiters, c)
    /\ pc' = [pc EXCEPT ![c] = Entry(op[c].kind)]
    /\ UNCHANGED <<state, heap, now, subscribers, op, snap, obsSnap, nDec, nAlert,
                   hist>>

\* Leaving `async with self._lock:`.
Release(c) ==
    /\ lockOwner' = "none"
    /\ pc' = [pc EXCEPT ![c] = "idle"]
    /\ op' = [op EXCEPT ![c] = NoOp]

\* History: client c arrives at the store with a new call.
Entered(h, c) ==
    [h EXCEPT !.inflight = Append(@, c), !.tornGets = @ \ {c},
              !.observerFault = @ \ {c}]

\* History: the call of client c returns.
Returned(h, c) ==
    [h EXCEPT !.inflight = Without(@, c), !.named[c] = {}, !.commitOf[c] = 0]

\* History: a mutating operation has made its last change to the state.

Committed(h, st, hp) == [h EXCEPT !.stable = Deref(st, hp)]

(***************************************************************************)
(* get_state                                                               *)
(***************************************************************************)
Torn == Deref(state, heap) # hist.stable

CallGetState(c) ==
    /\ Acquire(c, [NoOp EXCEPT !.kind = "get_state"])
    /\ hist' = [Entered(hist, c) EXCEPT !.tornGets = IF Torn THEN @ \cup {c} ELSE @]
    /\ UNCHANGED <<state, heap, now, subscribers, snap, obsSnap, nDec, nAlert>>

GetState(c) ==
    /\ pc[c] = "copy"
    /\ snap' = [snap EXCEPT ![c] = <<model_copy(state)>>]
    /\ heap' = Collect(heap, state, snap', obsSnap)
    /\ Release(c)
    /\ hist' = Returned(hist, c)
    /\ UNCHANGED <<state, now, lockWaiters, subscribers, obsSnap, nDec, nAlert>>

(***************************************************************************)
(* update_state                                                            *)
(***************************************************************************)
Oversize(n) == [i \in 1..(n + 1) |-> 0]

\* The keyword arguments the clients pass: exposed fields, a name that is no
\* attribute of SystemState, and list fields of SystemState.
ScalarDeltas ==
    {[battery_soc |-> v] : v \in ScalarValues}
    \cup {[load_kwh |-> v] : v \in ScalarValues}
    \cup {[battery_soc |-> v, load_kwh |-> v] : v \in ScalarValues}

Deltas ==
    ScalarDeltas
    \cup {[bogus |-> 10]}
    \cup {[load_kwh |-> 10, bogus |-> 10]}
    \cup {[load_kwh |-> 10, model_copy |-> 10]}
    \cup {[decision_history |-> Oversize(DecisionHistoryLimit)]}
    \cup {[alert_history |-> Oversize(AlertHistoryLimit)]}

\* History: an update_state call with this delta arrives at the store.
Arrived(h, delta) ==
    [h EXCEPT
       !.lastArrived = [f \in ScalarFields |->
                          IF f \in DOMAIN delta THEN delta[f] ELSE @[f]],
       !.writers = [f \in ScalarFields |->
                          IF f \in DOMAIN delta THEN @[f] + 1 ELSE @[f]],
       !.supplied = [f \in ScalarFields |->
                          IF f \in DOMAIN delta THEN @[f] \cup {delta[f]} ELSE @[f]],
       !.overlap = @ \/ \E x \in Clients : op[x].kind = "update_state"]

\* History: the names the call of client c passes.
Named(h, c, delta) == [h EXCEPT !.named[c] = DOMAIN delta]

CallUpdateState(c, delta) ==
    /\ Acquire(c, [NoOp EXCEPT !.kind = "update_state", !.delta = delta])
    /\ hist' = Named(Arrived(Entered(hist, c), delta), c, delta)
    /\ UNCHANGED <<state, heap, now, subscribers, snap, obsSnap, nDec, nAlert>>

\* One iteration of `for key, value in kwargs.items()`; the caller chooses the
\* order of the keyword arguments.
UpdateSetattr(c) ==
    /\ pc[c] = "setattr"
    /\ DOMAIN op[c].delta # {}
    /\ \E key \in DOMAIN op[c].delta :
         LET value == op[c].delta[key]
             rest == [k \in (DOMAIN op[c].delta) \ {key} |-> op[c].delta[k]]
         IN /\ op' = [op EXCEPT ![c].delta = rest]
            /\ IF hasattr(state, key)
               THEN IF SetattrRaises(state, key)
                    THEN /\ pc' = [pc EXCEPT ![c] = "raise"]
                         /\ UNCHANGED <<state, heap>>
                    ELSE IF key \in ListFields
                    THEN /\ state' = setattr(state, key, NewList(heap))
                         /\ heap' = Collect(Alloc(heap, value), state', snap, obsSnap)
                         /\ UNCHANGED pc
                    ELSE /\ state' = setattr(state, key, value)
                         /\ UNCHANGED <<heap, pc>>
               ELSE UNCHANGED <<state, heap, pc>>
    /\ UNCHANGED <<now, lockOwner, lockWaiters, subscribers, snap, obsSnap,
                   nDec, nAlert, hist>>

\* An exception leaves `async with self._lock:` and reaches the caller.
UpdateRaises(c) ==
    /\ pc[c] = "raise"
    /\ Release(c)
    /\ hist' = Returned(hist, c)
    /\ UNCHANGED <<state, heap, now, lockWaiters, subscribers, snap, obsSnap, nDec,
                   nAlert>>

\* self._state.timestamp = datetime.now()
UpdateTimestamp(c) ==
    /\ pc[c] = "setattr"
    /\ DOMAIN op[c].delta = {}
    /\ \E t \in Times :
         /\ now' = t
         /\ state' = setattr(state, "timestamp", t)
    /\ pc' = [pc EXCEPT ![c] = "notify"]
    /\ op' = [op EXCEPT ![c].idx = 1]
    /\ hist' = [Committed(hist, state', heap) EXCEPT
                   !.commits = @ + 1, !.commitOf[c] = hist.commits + 1]
    /\ UNCHANGED <<heap, lockOwner, lockWaiters, subscribers, snap, obsSnap, nDec,
                   nAlert>>

\* One iteration of `for callback in self._subscribers` in _notify_subscribers:
\* `await callback(self._state.model_copy())` calls the callback with a copy.
NotifySubscriber(c) ==
    /\ pc[c] = "notify"
    /\ op[c].idx <= Len(subscribers)
    /\ LET o == subscribers[op[c].idx]
       IN /\ obsSnap' = [obsSnap EXCEPT ![o] = <<model_copy(state)>>]
          /\ hist' = [hist EXCEPT !.delivered[o] = Append(@, hist.commitOf[c])]
    /\ heap' = Collect(heap, state, snap, obsSnap')
    /\ pc' = [pc EXCEPT ![c] = "callback"]
    /\ UNCHANGED <<state, now, lockOwner, lockWaiters, subscribers, op, snap, nDec,
                   nAlert>>

\* Mutant: the first exception ends the loop over the callbacks.
BreakOnException(idx, n) == [pc |-> "notify", idx |-> n + 1]

\* Mutant: the exception of a callback is not caught.
Reraise(idx, n) == [pc |-> "raise", idx |-> idx]

\* `except Exception as e: print(...)`: the loop goes on with the next callback.
ExceptException(idx, n) == [pc |-> "notify", idx |-> idx + 1]

\* The callback the writer awaits returns.
CallbackReturns(c) ==
    /\ pc[c] = "callback"
    /\ subscribers[op[c].idx] \notin Raising
    /\ pc' = [pc EXCEPT ![c] = "notify"]
    /\ op' = [op EXCEPT ![c].idx = @ + 1]
    /\ UNCHANGED <<state, heap, now, lockOwner, lockWaiters, subscribers, snap,
                   obsSnap, nDec, nAlert, hist>>

\* The callback the writer awaits raises an Exception.
CallbackRaises(c) ==
    /\ pc[c] = "callback"
    /\ subscribers[op[c].idx] \in Raising
    /\ LET r == ExceptException(op[c].idx, Len(subscribers))
       IN /\ pc' = [pc EXCEPT ![c] = r.pc]
          /\ op' = [op EXCEPT ![c].idx = r.idx]
    /\ hist' = [hist EXCEPT !.observerFault = @ \cup {c}]
    /\ UNCHANGED <<state, heap, now, lockOwner, lockWaiters, subscribers, snap,
                   obsSnap, nDec, nAlert>>

UpdateReturn(c) ==
    /\ pc[c] = "notify"
    /\ op[c].idx > Len(subscribers)
    /\ Release(c)
    /\ hist' = Returned(hist, c)
    /\ UNCHANGED <<state, heap, now, lockWaiters, subscribers, snap, obsSnap, nDec,
                   nAlert>>

(***************************************************************************)
(* add_decision: the n-th call passes decision n.                          *)
(***************************************************************************)
CallAddDecision(c) ==
    /\ Acquire(c, [NoOp EXCEPT !.kind = "add_decision", !.arg = nDec + 1])
    /\ hist' = Entered(hist, c)
    /\ nDec' = nDec + 1
    /\ UNCHANGED <<state, heap, now, subscribers, snap, obsSnap, nAlert>>

\* self._state.current_decision = decision
DecisionSetCurrent(c) ==
    /\ pc[c] = "set_current"
    /\ state' = setattr(state, "current_decision", op[c].arg)
    /\ pc' = [pc EXCEPT ![c] = "append_history"]
    /\ UNCHANGED <<heap, now, lockOwner, lockWaiters, subscribers, op, snap, obsSnap,
                   nDec, nAlert, hist>>

\* self._state.decision_history.append(decision)
DecisionAppend(c) ==
    /\ pc[c] = "append_history"
    /\ op[c].kind = "add_decision"
    /\ heap' = ListAppend(heap, state.decision_history, op[c].arg)
    /\ pc' = [pc EXCEPT ![c] = "trim"]
    /\ UNCHANGED <<state, now, lockOwner, lockWaiters, subscribers, op, snap, obsSnap,
                   nDec, nAlert, hist>>

\* if len(history) > limit: history = history[-limit:]   (a new list object)
Trim(st, h, field, limit) ==
    IF Len(h[st[field]]) > limit
    THEN <<setattr(st, field, NewList(h)), Alloc(h, LastN(h[st[field]], limit))>>
    ELSE <<st, h>>

DecisionTrim(c) ==
    /\ pc[c] = "trim"
    /\ op[c].kind = "add_decision"
    /\ LET r == Trim(state, heap, "decision_history", DecisionHistoryLimit)
       IN /\ state' = r[1]
          /\ heap' = Collect(r[2], state', snap, obsSnap)
    /\ Release(c)
    /\ hist' = Returned(Committed(hist, state', heap'), c)
    /\ UNCHANGED <<now, lockWaiters, subscribers, snap, obsSnap, nDec, nAlert>>

(***************************************************************************)
(* add_alert: the n-th call passes alert n.                                *)
(***************************************************************************)
CallAddAlert(c) ==
    /\ Acquire(c, [NoOp EXCEPT !.kind = "add_alert", !.arg = nAlert + 1])
    /\ hist' = Entered(hist, c)
    /\ nAlert' = nAlert + 1
    /\ UNCHANGED <<state, heap, now, subscribers, snap, obsSnap, nDec>>

\* self._state.active_alerts.append(alert)
AlertAppendActive(c) ==
    /\ pc[c] = "append_active"
    /\ heap' = ListAppend(heap, state.active_alerts, op[c].arg)
    /\ pc' = [pc EXCEPT ![c] = "append_history"]
    /\ UNCHANGED <<state, now, lockOwner, lockWaiters, subscribers, op, snap, obsSnap,
                   nDec, nAlert, hist>>

\* self._state.alert_history.append(alert)
AlertAppend(c) ==
    /\ pc[c] = "append_history"
    /\ op[c].kind = "add_alert"
    /\ heap' = ListAppend(heap, state.alert_history, op[c].arg)
    /\ pc' = [pc EXCEPT ![c] = "trim"]
    /\ UNCHANGED <<state, now, lockOwner, lockWaiters, subscribers, op, snap, obsSnap,
                   nDec, nAlert, hist>>

AlertTrim(c) ==
    /\ pc[c] = "trim"
    /\ op[c].kind = "add_alert"
    /\ LET r == Trim(state, heap, "alert_history", AlertHistoryLimit)
       IN /\ state' = r[1]
          /\ heap' = Collect(r[2], state', snap, obsSnap)
    /\ Release(c)
    /\ hist' = Returned(Committed(hist, state', heap'), c)
    /\ UNCHANGED <<now, lockWaiters, subscribers, snap, obsSnap, nDec, nAlert>>

(***************************************************************************)
(* clear_resolved_alerts and subscribe                                     *)
(***************************************************************************)
CallClearResolvedAlerts(c) ==
    /\ Acquire(c, [NoOp EXCEPT !.kind = "clear_resolved_alerts"])
    /\ hist' = Entered(hist, c)
    /\ UNCHANGED <<state, heap, now, subscribers, snap, obsSnap, nDec, nAlert>>

\* Mutant: clear_resolved_alerts empties the active list.
ActiveAlertsCleared(st, h) == <<st, [h EXCEPT ![st.active_alerts] = <<>>]>>

\* The body of clear_resolved_alerts: `pass`.
ResolvedAlertsCleared(st, h) == <<st, h>>

ClearResolvedAlerts(c) ==
    /\ pc[c] = "pass"
    /\ LET r == ResolvedAlertsCleared(state, heap)
       IN /\ state' = r[1]
          /\ heap' = Collect(r[2], state', snap, obsSnap)
    /\ Release(c)
    /\ hist' = [Returned(Committed(hist, state', heap'), c) EXCEPT !.cleared = TRUE]
    /\ UNCHANGED <<now, lockWaiters, subscribers, snap, obsSnap, nDec, nAlert>>

\* subscribe takes no lock and has no await: it is one step.
Subscribe(o) ==
    /\ subscribers' = Append(subscribers, o)
    /\ UNCHANGED <<state, heap, now, lockOwner, lockWaiters, pc, op, snap, obsSnap,
                   nDec, nAlert, hist>>

(***************************************************************************)
(* AgentScheduler.  A coroutine that uses the scheduler is main(), the     *)
(* shutdown() task a signal creates, monitor_agents(), or a caller of the  *)
(* scheduler's methods.                                                    *)
(***************************************************************************)
AgentNames == {"controller", "executor"}
Instances == {1, 2}
Users == {<<"user", 1>>, <<"user", 2>>}
Main == <<"main", 0>>
Monitor == <<"monitor", 0>>
Shutdowns == {"signal"} \X (1..MaxSignals)
Procs == Users \cup Shutdowns \cup {Main, Monitor}
TaskIds == 1..MaxTasks

Idle == [pc |-> "idle", op |-> "none", name |-> "none", waits |-> {}, todo |-> {},
         result |-> "none", status |-> <<>>]

SchedInit ==
    /\ agents = [n \in AgentNames |-> 0]
    /\ tasks = [n \in AgentNames |-> 0]
    /\ taskSt = [t \in TaskIds |-> "free"]
    /\ taskName = [t \in TaskIds |-> "none"]
    /\ running = FALSE
    /\ shutdownEvent = FALSE
    /\ handlers = FALSE
    /\ signals = 0
    /\ schedCalls = 0
    /\ proc = [p \in Procs |-> Idle]

\* not task.done()
Live(t) == taskSt[t] \in {"running", "cancelling"}

Done(t) == taskSt[t] \in {"done", "failed", "cancelled"}

HasFreeTask == \E t \in TaskIds : taskSt[t] = "free"

FreeTask == CHOOSE t \in TaskIds : taskSt[t] = "free" /\ \A u \in 1..(t - 1) : taskSt[u] # "free"

\* register_agent
RegisterAgent(name, instance) ==
    /\ agents' = [agents EXCEPT ![name] = instance]
    /\ UNCHANGED <<tasks, taskSt, taskName, running, shutdownEvent, handlers, signals,
                   proc>>

\* task = asyncio.create_task(agent.start()); self.tasks[name] = task
CreateTask(name) ==
    /\ HasFreeTask
    /\ taskSt' = [taskSt EXCEPT ![FreeTask] = "running"]
    /\ taskName' = [taskName EXCEPT ![FreeTask] = name]
    /\ tasks' = [tasks EXCEPT ![name] = FreeTask]

\* start_agent up to its first await: raises for a name that is not registered.
start_agent(name) ==
    IF agents[name] = 0
    THEN UNCHANGED <<tasks, taskSt, taskName>>
    ELSE CreateTask(name)

StartRaises(name) == agents[name] = 0

Return(p, result) == proc' = [proc EXCEPT ![p] = [Idle EXCEPT !.result = result]]

Goto(p, pc_) == proc' = [proc EXCEPT ![p].pc = pc_]

\* Mutant: monitor_agents has no except clause.
Propagate(p) == Return(p, "error")

\* An exception leaves the method p is in: monitor_agents catches it and backs
\* off, every other caller gets it.
Raise(p) ==
    IF proc[p].op = "monitor"
    THEN proc' = [proc EXCEPT ![p].pc = "monitor_backoff", ![p].waits = {},
                              ![p].todo = {}, ![p].name = "none",
                              ![p].result = "caught"]
    ELSE Return(p, "error")

(***************************************************************************)
(* The worker tasks, seen from the scheduler.                              *)
(***************************************************************************)
\* The coroutine of the task returns.
TaskReturns(t) ==
    /\ taskSt[t] = "running"
    /\ taskSt' = [taskSt EXCEPT ![t] = "done"]
    /\ UNCHANGED <<agents, tasks, taskName, running, shutdownEvent, handlers, signals,
                   proc>>

\* An exception leaves the coroutine of the task.
TaskFails(t) ==
    /\ taskSt[t] = "running"
    /\ taskSt' = [taskSt EXCEPT ![t] = "failed"]
    /\ UNCHANGED <<agents, tasks, taskName, running, shutdownEvent, handlers, signals,
                   proc>>

\* A task that was cancelled ends: cancelled if CancelledError leaves its coroutine,
\* done if the coroutine catches it and returns (as every agent's start does),
\* failed if its finalization raises.
TaskCancelled(t, outcome) ==
    /\ taskSt[t] = "cancelling"
    /\ taskSt' = [taskSt EXCEPT ![t] = outcome]
    /\ UNCHANGED <<agents, tasks, taskName, running, shutdownEvent, handlers, signals,
                   proc>>

(***************************************************************************)
(* start_agent, stop_agent, restart_agent                                  *)
(***************************************************************************)
CallStartAgent(p, name) ==
    /\ proc[p].pc = "idle"
    /\ proc' = [proc EXCEPT ![p] = [Idle EXCEPT !.pc = "start", !.op = "start",
                                                !.name = name]]
    /\ UNCHANGED <<agents, tasks, taskSt, taskName, running, shutdownEvent, handlers,
                   signals>>

\* What follows start_agent in the method p is in: monitor_agents goes on with
\* its for loop, restart_agent logs agent_restarted and returns.
AfterStart(p) ==
    IF proc[p].op = "monitor"
    THEN Goto(p, "monitor_scan")
    ELSE IF proc[p].op = "restart" THEN Return(p, "restarted") ELSE Return(p, "ok")

StartAgent(p) ==
    /\ proc[p].pc = "start"
    /\ start_agent(proc[p].name)
    /\ IF StartRaises(proc[p].name)
       THEN Raise(p)
       ELSE AfterStart(p)
    /\ UNCHANGED <<agents, running, shutdownEvent, handlers, signals>>

CallStopAgent(p, name) ==
    /\ proc[p].pc = "idle"
    /\ proc' = [proc EXCEPT ![p] = [Idle EXCEPT !.pc = "stop", !.op = "stop",
                                                !.name = name]]
    /\ UNCHANGED <<agents, tasks, taskSt, taskName, running, shutdownEvent, handlers,
                   signals>>

\* What follows stop_agent in the method p is in.  A caller of stop_agent that
\* has returned keeps the name it stopped.
AfterStop(p) ==
    IF proc[p].op = "stop"
    THEN proc' = [proc EXCEPT ![p] = [Idle EXCEPT !.result = "ok", !.name = proc[p].name]]
    ELSE proc' = [proc EXCEPT ![p].pc = "restart_sleep", ![p].waits = {}]

\* Mutant: stop_agent deletes the entry without looking whether it is there.
StopMissingRaises(p) == Raise(p)

\* stop_agent for a name that is not in self.tasks: the body of the if is skipped.
StopMissing(p) ==
    IF proc[p].op = "stop"
    THEN Return(p, "noop")
    ELSE proc' = [proc EXCEPT ![p].pc = "restart_sleep", ![p].waits = {}]

\* Mutant: the entry stays in self.tasks.
KeepHandle(tb, name) == tb

\* del self.tasks[name]
Discard(tb, name) == [tb EXCEPT ![name] = 0]

\* task.cancel()
Cancel(ts, t) == IF ts[t] = "running" THEN [ts EXCEPT ![t] = "cancelling"] ELSE ts

\* stop_agent up to `await task`.
StopAgent(p) ==
    /\ proc[p].pc = "stop"
    /\ LET name == proc[p].name
           t == tasks[name]
       IN IF t = 0
          THEN /\ StopMissing(p)
               /\ UNCHANGED <<tasks, taskSt>>
          ELSE IF Live(t)
               THEN /\ taskSt' = Cancel(taskSt, t)
                    /\ proc' = [proc EXCEPT ![p].pc = "stop_await",
                                            ![p].waits = {<<name, t>>}]
                    /\ UNCHANGED tasks
               ELSE /\ tasks' = Discard(tasks, name)
                    /\ AfterStop(p)
                    /\ UNCHANGED taskSt
    /\ UNCHANGED <<agents, taskName, running, shutdownEvent, handlers, signals>>

\* stop_agent from the return of `await task`: the exception of a failed task
\* leaves stop_agent, and `del self.tasks[name]` raises KeyError when the entry
\* is gone.
StopAwaited(p) ==
    /\ proc[p].pc = "stop_await"
    /\ \E w \in proc[p].waits :
         /\ Done(w[2])
         /\ IF taskSt[w[2]] = "failed" \/ tasks[w[1]] = 0
            THEN Raise(p) /\ UNCHANGED tasks
            ELSE tasks' = Discard(tasks, w[1]) /\ AfterStop(p)
    /\ UNCHANGED <<agents, taskSt, taskName, running, shutdownEvent, handlers, signals>>

CallRestartAgent(p, name) ==
    /\ proc[p].pc = "idle"
    /\ proc' = [proc EXCEPT ![p] = [Idle EXCEPT !.pc = "stop", !.op = "restart",
                                                !.name = name]]
    /\ UNCHANGED <<agents, tasks, taskSt, taskName, running, shutdownEvent, handlers,
                   signals>>

\* await asyncio.sleep(1) in restart_agent
RestartPause(p) ==
    /\ proc[p].pc = "restart_sleep"
    /\ Goto(p, "start")
    /\ UNCHANGED <<agents, tasks, taskSt, taskName, running, shutdownEvent, handlers,
                   signals>>

(***************************************************************************)
(* start_all_agents, stop_all_agents, shutdown                             *)
(***************************************************************************)
Registered == {n \in AgentNames : agents[n] # 0}

Recorded == {n \in AgentNames : tasks[n] # 0}

\* start_all_agents up to asyncio.gather
StartAllBegin(p, op_) ==
    /\ running' = TRUE
    /\ proc' = [proc EXCEPT ![p] = [Idle EXCEPT !.pc = "start_all", !.op = op_,
                                                !.todo = Registered]]
    /\ UNCHANGED <<agents, tasks, taskSt, taskName, shutdownEvent, handlers, signals>>

CallStartAllAgents(p) ==
    /\ proc[p].pc = "idle"
    /\ StartAllBegin(p, "start_all")

\* One start_agent of the gather of start_all_agents; its exception is collected.
StartAllStart(p) ==
    /\ proc[p].pc = "start_all"
    /\ \E name \in proc[p].todo :
         /\ start_agent(name)
         /\ proc' = [proc EXCEPT ![p].todo = @ \ {name}]
    /\ UNCHANGED <<agents, running, shutdownEvent, handlers, signals>>

StartAllReturn(p) ==
    /\ proc[p].pc = "start_all"
    /\ proc[p].todo = {}
    /\ IF proc[p].op = "main" THEN Goto(p, "main_sleep") ELSE Return(p, "ok")
    /\ UNCHANGED <<agents, tasks, taskSt, taskName, running, shutdownEvent, handlers,
                   signals>>

\* stop_all_agents up to asyncio.gather
StopAllBegin(p, op_) ==
    /\ running' = FALSE
    /\ shutdownEvent' = TRUE
    /\ proc' = [proc EXCEPT ![p] = [Idle EXCEPT !.pc = "stop_all", !.op = op_,
                                                !.todo = Recorded]]
    /\ UNCHANGED <<agents, tasks, taskSt, taskName, handlers, signals>>

CallStopAllAgents(p) ==
    /\ proc[p].pc = "idle"
    /\ StopAllBegin(p, "stop_all")

\* One stop_agent of the gather of stop_all_agents, up to its `await task`.
StopAllStop(p) ==
    /\ proc[p].pc = "stop_all"
    /\ \E name \in proc[p].todo :
         LET t == tasks[name]
         IN IF t = 0
            THEN /\ proc' = [proc EXCEPT ![p].todo = @ \ {name}]
                 /\ UNCHANGED <<tasks, taskSt>>
            ELSE IF Live(t)
                 THEN /\ taskSt' = Cancel(taskSt, t)
                      /\ proc' = [proc EXCEPT ![p].todo = @ \ {name},
                                              ![p].waits = @ \cup {<<name, t>>}]
                      /\ UNCHANGED tasks
                 ELSE /\ tasks' = Discard(tasks, name)
                      /\ proc' = [proc EXCEPT ![p].todo = @ \ {name}]
                      /\ UNCHANGED taskSt
    /\ UNCHANGED <<agents, taskName, running, shutdownEvent, handlers, signals>>

\* One stop_agent of the gather, from the return of its `await task`; its
\* exception is collected.
StopAllAwaited(p) ==
    /\ proc[p].pc = "stop_all"
    /\ \E w \in proc[p].waits :
         /\ Done(w[2])
         /\ proc' = [proc EXCEPT ![p].waits = @ \ {w}]
         /\ IF taskSt[w[2]] = "failed" \/ tasks[w[1]] = 0
            THEN UNCHANGED tasks
            ELSE tasks' = Discard(tasks, w[1])
    /\ UNCHANGED <<agents, taskSt, taskName, running, shutdownEvent, handlers, signals>>

StopAllReturn(p) ==
    /\ proc[p].pc = "stop_all"
    /\ proc[p].todo = {}
    /\ proc[p].waits = {}
    /\ Return(p, "ok")
    /\ UNCHANGED <<agents, tasks, taskSt, taskName, running, shutdownEvent, handlers,
                   signals>>

(***************************************************************************)
(* monitor_agents                                                          *)
(***************************************************************************)
\* Some caller creates the task of monitor_agents.
SpawnMonitor ==
    /\ proc[Monitor].pc = "idle"
    /\ proc[Monitor].op = "none"
    /\ proc' = [proc EXCEPT ![Monitor] = [Idle EXCEPT !.pc = "monitor_while",
                                                      !.op = "monitor"]]
    /\ UNCHANGED <<agents, tasks, taskSt, taskName, running, shutdownEvent, handlers,
                   signals>>

\* Mutant: the loop goes on whatever the flags say.
MonitorNeverExits == TRUE

\* self.running and not self._shutdown_event.is_set()
MonitorContinues == running /\ ~shutdownEvent

\* The while condition of monitor_agents: the for loop starts on a copy of the
\* task table.
MonitorWhile ==
    /\ proc[Monitor].pc = "monitor_while"
    /\ IF MonitorContinues
       THEN proc' = [proc EXCEPT ![Monitor].pc = "monitor_scan",
                                 ![Monitor].todo = {<<n, tasks[n]>> : n \in Recorded}]
       ELSE Return(Monitor, "ok")
    /\ UNCHANGED <<agents, tasks, taskSt, taskName, running, shutdownEvent, handlers,
                   signals>>

\* if task.done() and not task.cancelled() and task.exception()
Crashed(t) == taskSt[t] = "failed"

\* One iteration of `for name, task in list(self.tasks.items())`.
MonitorScan ==
    /\ proc[Monitor].pc = "monitor_scan"
    /\ \E e \in proc[Monitor].todo :
         IF Crashed(e[2])
         THEN proc' = [proc EXCEPT ![Monitor].pc = "stop", ![Monitor].name = e[1],
                                   ![Monitor].todo = @ \ {e}]
         ELSE proc' = [proc EXCEPT ![Monitor].todo = @ \ {e}]
    /\ UNCHANGED <<agents, tasks, taskSt, taskName, running, shutdownEvent, handlers,
                   signals>>

\* await asyncio.sleep(30) after the for loop
MonitorSleep ==
    /\ proc[Monitor].pc = "monitor_scan"
    /\ proc[Monitor].todo = {}
    /\ proc' = [proc EXCEPT ![Monitor].pc = "monitor_while", ![Monitor].name = "none"]
    /\ UNCHANGED <<agents, tasks, taskSt, taskName, running, shutdownEvent, handlers,
                   signals>>

\* except Exception: log, await asyncio.sleep(60)
MonitorBackoff ==
    /\ proc[Monitor].pc = "monitor_backoff"
    /\ Goto(Monitor, "monitor_while")
    /\ UNCHANGED <<agents, tasks, taskSt, taskName, running, shutdownEvent, handlers,
                   signals>>

(***************************************************************************)
(* get_agent_status                                                        *)
(***************************************************************************)
\* task.exception() raises InvalidStateError for a task that is not done and
\* CancelledError for a task that was cancelled.
ExceptionRaises(t) == taskSt[t] \in {"running", "cancelling", "cancelled"}

\* The entry get_agent_status builds for a task.
StatusEntry(t) ==
    [running |-> ~Done(t), cancelled |-> taskSt[t] = "cancelled",
     exception |-> taskSt[t] = "failed"]

\* get_agent_status has no await: it is one step.  It iterates self.tasks.
GetAgentStatus(p) ==
    /\ proc[p].pc = "idle"
    /\ IF \E n \in Recorded : ExceptionRaises(tasks[n])
       THEN proc' = [proc EXCEPT ![p] = [Idle EXCEPT !.op = "status", !.result = "error"]]
       ELSE proc' = [proc EXCEPT ![p] =
                       [Idle EXCEPT !.op = "status", !.result = "ok",
                                    !.status = [n \in Recorded |-> StatusEntry(tasks[n])]]]
    /\ UNCHANGED <<agents, tasks, taskSt, taskName, running, shutdownEvent, handlers,
                   signals>>

(***************************************************************************)
(* The event loop runs one coroutine until it awaits.  monitor_agents has   *)
(* no await between taking the copy of the task table (or returning from a *)
(* restart) and the await of the restart or of the sleep: logger.log_error *)
(* and logger.log_event never suspend.                                     *)
(***************************************************************************)
InSync(q) ==
    \/ proc[q].pc = "monitor_scan"
    \/ proc[q].op = "monitor" /\ proc[q].pc = "stop"

\* A task object is freed once it is done and nothing refers to it: neither
\* self.tasks, nor an `await task`, nor the copy monitor_agents iterates over.
Referenced(t) ==
    \/ \E n \in AgentNames : tasks[n] = t
    \/ \E p \in Procs : \E w \in proc[p].waits : w[2] = t
    \/ \E e \in proc[Monitor].todo : e[2] = t

Garbage(t) == Done(t) /\ ~Referenced(t)

Tidy == \A t \in TaskIds : ~Garbage(t)

ReleaseTasks ==
    /\ ~Tidy
    /\ taskSt' = [t \in TaskIds |-> IF Garbage(t) THEN "free" ELSE taskSt[t]]
    /\ taskName' = [t \in TaskIds |-> IF Garbage(t) THEN "none" ELSE taskName[t]]
    /\ UNCHANGED <<agents, tasks, running, shutdownEvent, handlers, signals, proc>>

\* Coroutine p may take a step; an event outside the coroutines may happen.
Runs(p) == Tidy /\ \A q \in Procs \ {p} : ~InSync(q)

Env == Tidy /\ \A q \in Procs : ~InSync(q)

(***************************************************************************)
(* main() and the signal handlers                                          *)
(***************************************************************************)
\* register_agents(); scheduler.setup_signal_handlers()
MainRegister ==
    /\ proc[Main].pc = "idle"
    /\ proc[Main].op = "none"
    /\ agents' = [n \in AgentNames |-> 1]
    /\ handlers' = TRUE
    /\ proc' = [proc EXCEPT ![Main] = [Idle EXCEPT !.pc = "main_start", !.op = "main"]]
    /\ UNCHANGED <<tasks, taskSt, taskName, running, shutdownEvent, signals>>

\* await scheduler.start_all_agents()
MainStartAll ==
    /\ proc[Main].pc = "main_start"
    /\ StartAllBegin(Main, "main")

\* while True: await asyncio.sleep(60) -- main() has no way out of this loop.
MainSleep ==
    /\ proc[Main].pc = "main_sleep"
    /\ Goto(Main, "main_sleep")
    /\ UNCHANGED <<agents, tasks, taskSt, taskName, running, shutdownEvent, handlers,
                   signals>>

\* signal_handler: asyncio.create_task(self.shutdown())
Signal ==
    /\ handlers
    /\ signals < MaxSignals
    /\ signals' = signals + 1
    /\ proc' = [proc EXCEPT ![<<"signal", signals + 1>>] =
                    [Idle EXCEPT !.pc = "shutdown", !.op = "shutdown"]]
    /\ UNCHANGED <<agents, tasks, taskSt, taskName, running, shutdownEvent, handlers>>

\* shutdown: await self.stop_all_agents()
Shutdown(p) ==
    /\ proc[p].pc = "shutdown"
    /\ StopAllBegin(p, "shutdown")

(***************************************************************************)
(* The agents: every agent's start() is the same loop around its own       *)
(* iteration method                                                        *)
(*     self.running = True                                                 *)
(*     try:                                                                *)
(*         while self.running:                                             *)
(*             await self._iteration()                                     *)
(*             await asyncio.sleep(self.update_interval)                   *)
(*     except asyncio.CancelledError: print(...)                           *)
(*     except Exception as e: await logger.log_error(...)                  *)
(*     finally: self.running = False; await logger.log_event(...)          *)
(* workerPc[t] is "none" before the first step of the task and after its   *)
(* last, "iteration" inside the iteration method, "fault" while an         *)
(* exception raised by the iteration is in flight, "sleep" in the sleep.   *)
(***************************************************************************)
AgentKinds ==
    {"ingestion", "forecast", "controller", "decision", "advisor", "executor",
     "escalation"}

\* The agents whose iteration method has its body in try/except Exception.
CatchesInside == {"ingestion", "forecast", "decision", "advisor"}

AgentInit ==
    /\ workerPc = [t \in TaskIds |-> "none"]
    /\ agentRunning = [k \in AgentKinds |-> FALSE]
    /\ actionOf = <<>>
    /\ execPc = "idle"
    /\ applied = <<>>
    /\ cycles = 0

WorkerFrame ==
    UNCHANGED <<storeVars, agents, tasks, taskName, running, shutdownEvent, handlers,
                signals, schedCalls, proc, execVars>>

\* An exception is in flight in some task: no other coroutine runs before it has
\* been handled.
Faulting == \E t \in TaskIds : workerPc[t] = "fault"

\* finally: self.running = False; log 'agent_stopped'; the coroutine returns.
Finalize(t) ==
    /\ agentRunning' = [agentRunning EXCEPT ![taskName[t]] = FALSE]
    /\ workerPc' = [workerPc EXCEPT ![t] = "none"]
    /\ taskSt' = [taskSt EXCEPT ![t] = "done"]

\* The first step of the task: self.running = True, log 'agent_started', enter
\* the loop and the first iteration.
WorkerStarts(t) ==
    /\ taskSt[t] = "running"
    /\ workerPc[t] = "none"
    /\ agentRunning' = [agentRunning EXCEPT ![taskName[t]] = TRUE]
    /\ workerPc' = [workerPc EXCEPT ![t] = "iteration"]
    /\ UNCHANGED taskSt
    /\ WorkerFrame

\* The iteration method returns; the loop sleeps.
WorkerIterates(t) ==
    /\ taskSt[t] = "running"
    /\ workerPc[t] = "iteration"
    /\ workerPc' = [workerPc EXCEPT ![t] = "sleep"]
    /\ UNCHANGED <<taskSt, agentRunning>>
    /\ WorkerFrame

\* A statement of the iteration method raises.
WorkerFaults(t) ==
    /\ taskSt[t] = "running"
    /\ workerPc[t] = "iteration"
    /\ workerPc' = [workerPc EXCEPT ![t] = "fault"]
    /\ UNCHANGED <<taskSt, agentRunning>>
    /\ WorkerFrame

\* The exception reaches the nearest handler: the iteration method's own, after
\* which the method returns and the loop sleeps, or that of start(), which is
\* outside the loop.
FaultHandled(t) ==
    /\ workerPc[t] = "fault"
    /\ IF taskName[t] \in CatchesInside
       THEN /\ workerPc' = [workerPc EXCEPT ![t] = "sleep"]
            /\ UNCHANGED <<taskSt, agentRunning>>
       ELSE Finalize(t)
    /\ WorkerFrame

\* The sleep is over: while self.running.
WorkerWakes(t) ==
    /\ taskSt[t] = "running"
    /\ workerPc[t] = "sleep"
    /\ IF agentRunning[taskName[t]]
       THEN /\ workerPc' = [workerPc EXCEPT ![t] = "iteration"]
            /\ UNCHANGED <<taskSt, agentRunning>>
       ELSE Finalize(t)
    /\ WorkerFrame

\* The cancellation is delivered.  A task that has not taken its first step never
\* runs its coroutine; otherwise CancelledError is raised at the await the task
\* is suspended in, start() catches it, runs the finally clause and returns.
WorkerCancelled(t) ==
    /\ taskSt[t] = "cancelling"
    /\ workerPc[t] # "fault"
    /\ IF workerPc[t] = "none"
       THEN /\ taskSt' = [taskSt EXCEPT ![t] = "cancelled"]
            /\ UNCHANGED <<workerPc, agentRunning>>
       ELSE Finalize(t)
    /\ WorkerFrame

\* agent.get_status()["running"]
get_status(name) == agentRunning[name]

\* asyncio.create_task(agent.start()) for an agent of kind k of which no task runs.
SpawnWorker(k) ==
    /\ HasFreeTask
    /\ \A t \in TaskIds : Live(t) => taskName[t] # k
    /\ taskSt' = [taskSt EXCEPT ![FreeTask] = "running"]
    /\ taskName' = [taskName EXCEPT ![FreeTask] = k]
    /\ UNCHANGED <<storeVars, agents, tasks, running, shutdownEvent, handlers, signals,
                   schedCalls, proc, agentVars>>

\* task.cancel()
CancelWorker(t) ==
    /\ taskSt[t] = "running"
    /\ taskSt' = Cancel(taskSt, t)
    /\ UNCHANGED <<storeVars, agents, tasks, taskName, running, shutdownEvent, handlers,
                   signals, schedCalls, proc, agentVars>>

(***************************************************************************)
(* Specifications                                                          *)
(***************************************************************************)
InitHist ==
    [stable |-> Deref(SystemState, InitHeap),
     lastArrived |-> [f \in ScalarFields |-> 0],
     writers |-> [f \in ScalarFields |-> 0],
     supplied |-> [f \in ScalarFields |-> {}],
     overlap |-> FALSE,
     inflight |-> <<>>,
     tornGets |-> {},
     cleared |-> FALSE,
     named |-> [c \in Clients |-> {}],
     commits |-> 0,
     commitOf |-> [c \in Clients |-> 0],
     delivered |-> [o \in Observers |-> <<>>],
     observerFault |-> {}]

Init ==
    /\ state = SystemState
    /\ heap = InitHeap
    /\ now = 0
    /\ lockOwner = "none"
    /\ lockWaiters = <<>>
    /\ subscribers = <<>>
    /\ pc = [c \in Clients |-> "idle"]
    /\ op = [c \in Clients |-> NoOp]
    /\ snap = [c \in Clients |-> <<>>]
    /\ obsSnap = [o \in Observers |-> <<>>]
    /\ nDec = 0
    /\ nAlert = 0
    /\ calls = 0
    /\ hist = InitHist
    /\ SchedInit
    /\ AgentInit

\* A call counted against the bound of the exploration.
Counted(A) ==
    calls < MaxCalls /\ calls' = calls + 1 /\ A /\ UNCHANGED <<schedVars, agentVars>>

Uncounted(A) == A /\ UNCHANGED <<calls, schedVars, agentVars>>

\* Every operation of the store, called by either of two clients at any time;
\* nobody has subscribed.
Next ==
    \/ \E c \in Writers : Counted(CallGetState(c))
    \/ \E c \in Writers : \E delta \in Deltas : Counted(CallUpdateState(c, delta))
    \/ \E c \in Writers : Counted(CallAddDecision(c))
    \/ \E c \in Writers : Counted(CallAddAlert(c))
    \/ \E c \in Writers : Counted(CallClearResolvedAlerts(c))
    \/ \E c \in Writers : Uncounted(Wake(c))
    \/ \E c \in Writers : Uncounted(GetState(c))
    \/ \E c \in Writers : Uncounted(UpdateSetattr(c))
    \/ \E c \in Writers : Uncounted(UpdateTimestamp(c))
    \/ \E c \in Writers : Uncounted(UpdateRaises(c))
    \/ \E c \in Writers : Uncounted(UpdateReturn(c))
    \/ \E c \in Writers : Uncounted(DecisionSetCurrent(c))
    \/ \E c \in Writers : Uncounted(DecisionAppend(c))
    \/ \E c \in Writers : Uncounted(DecisionTrim(c))
    \/ \E c \in Writers : Uncounted(AlertAppendActive(c))
    \/ \E c \in Writers : Uncounted(AlertAppend(c))
    \/ \E c \in Writers : Uncounted(AlertTrim(c))
    \/ \E c \in Writers : Uncounted(ClearResolvedAlerts(c))

Spec == Init /\ [][Next]_vars

\* Concurrent update_state and get_state calls alone, one call more than in Spec.
CountedUpdate(A) ==
    calls < MaxUpdateCalls /\ calls' = calls + 1 /\ A /\ UNCHANGED <<schedVars, agentVars>>

UpdateNext ==
    \/ \E c \in Clients : CountedUpdate(CallGetState(c))
    \/ \E c \in Clients : \E delta \in ScalarDeltas :
         CountedUpdate(CallUpdateState(c, delta))
    \/ \E c \in Clients : Uncounted(Wake(c))
    \/ \E c \in Clients : Uncounted(GetState(c))
    \/ \E c \in Clients : Uncounted(UpdateSetattr(c))
    \/ \E c \in Clients : Uncounted(UpdateTimestamp(c))
    \/ \E c \in Clients : Uncounted(UpdateReturn(c))

UpdateSpec == Init /\ [][UpdateNext]_vars

\* Concurrent update_state calls while observers subscribe.
NotifyDeltas ==
    {[battery_soc |-> v] : v \in ScalarValues}
    \cup {[load_kwh |-> 10, model_copy |-> 10]}

CountedNotify(A) ==
    calls < MaxNotifyCalls /\ calls' = calls + 1 /\ A /\ UNCHANGED <<schedVars, agentVars>>

NotifyNext ==
    \/ \E c \in Writers : \E delta \in NotifyDeltas :
         CountedNotify(CallUpdateState(c, delta))
    \/ \E o \in Observers :
         Len(subscribers) < MaxObservers /\ Uncounted(Subscribe(o))
    \/ \E c \in Writers : Uncounted(Wake(c))
    \/ \E c \in Writers : Uncounted(UpdateSetattr(c))
    \/ \E c \in Writers : Uncounted(UpdateRaises(c))
    \/ \E c \in Writers : Uncounted(UpdateTimestamp(c))
    \/ \E c \in Writers : Uncounted(NotifySubscriber(c))
    \/ \E c \in Writers : Uncounted(CallbackReturns(c))
    \/ \E c \in Writers : Uncounted(CallbackRaises(c))
    \/ \E c \in Writers : Uncounted(UpdateReturn(c))

NotifySpec == Init /\ [][NotifyNext]_vars

\* One caller filling the two histories past their limits.
HistNext ==
    \/ nDec < MaxDecisions /\ Uncounted(CallAddDecision("c1"))
    \/ nAlert < MaxAlerts /\ Uncounted(CallAddAlert("c1"))
    \/ Uncounted(CallClearResolvedAlerts("c1"))
    \/ Uncounted(DecisionSetCurrent("c1"))
    \/ Uncounted(DecisionAppend("c1"))
    \/ Uncounted(DecisionTrim("c1"))
    \/ Uncounted(AlertAppendActive("c1"))
    \/ Uncounted(AlertAppend("c1"))
    \/ Uncounted(AlertTrim("c1"))
    \/ Uncounted(ClearResolvedAlerts("c1"))

HistSpec == Init /\ [][HistNext]_vars

\* A scheduler step; the store is not involved.
Sched(A) == A /\ UNCHANGED <<storeVars, schedCalls, agentVars>>

SchedCall(A) ==
    schedCalls < MaxSchedCalls /\ schedCalls' = schedCalls + 1 /\ A
    /\ UNCHANGED <<storeVars, agentVars>>

\* Every method a caller can call on the scheduler, called by any caller at any
\* time.  monitor_agents runs in OpsSpec and WatchSpec.
SchedNext ==
    \/ \E n \in AgentNames : \E i \in Instances : Env /\ SchedCall(RegisterAgent(n, i))
    \/ \E p \in Users : \E n \in AgentNames : Env /\ SchedCall(CallStartAgent(p, n))
    \/ \E p \in Users : \E n \in AgentNames : Env /\ SchedCall(CallStopAgent(p, n))
    \/ \E p \in Users : \E n \in AgentNames : Env /\ SchedCall(CallRestartAgent(p, n))
    \/ \E p \in Users : Env /\ SchedCall(CallStartAllAgents(p))
    \/ \E p \in Users : Env /\ SchedCall(CallStopAllAgents(p))
    \/ \E p \in Users : Env /\ SchedCall(GetAgentStatus(p))
    \/ \E p \in Procs : Runs(p) /\ Sched(StartAgent(p))
    \/ \E p \in Procs : Runs(p) /\ Sched(StopAgent(p))
    \/ \E p \in Procs : Runs(p) /\ Sched(StopAwaited(p))
    \/ \E p \in Procs : Runs(p) /\ Sched(RestartPause(p))
    \/ \E p \in Procs : Runs(p) /\ Sched(StartAllStart(p))
    \/ \E p \in Procs : Runs(p) /\ Sched(StartAllReturn(p))
    \/ \E p \in Procs : Runs(p) /\ Sched(StopAllStop(p))
    \/ \E p \in Procs : Runs(p) /\ Sched(StopAllAwaited(p))
    \/ \E p \in Procs : Runs(p) /\ Sched(StopAllReturn(p))
    \/ Sched(ReleaseTasks)
    \/ \E t \in TaskIds : Env /\ Sched(TaskReturns(t))
    \/ \E t \in TaskIds : Env /\ Sched(TaskFails(t))
    \/ \E t \in TaskIds : \E o \in {"done", "cancelled", "failed"} :
         Env /\ Sched(TaskCancelled(t, o))

SchedSpec == Init /\ [][SchedNext]_vars

\* The program as main() starts it, with monitor_agents scheduled once
\* start_all_agents has returned, and an operator calling the methods of the
\* scheduler.
Operator == <<"user", 1>>

OpsProcs == {Operator, Main, Monitor}

OpsCall(A) ==
    /\ Env
    /\ schedCalls < MaxOpsCalls
    /\ schedCalls' = schedCalls + 1
    /\ A
    /\ UNCHANGED <<storeVars, agentVars>>

OpsNext ==
    \/ Env /\ Sched(MainRegister)
    \/ Env /\ Sched(MainStartAll)
    \/ Env /\ proc[Main].pc = "main_sleep" /\ Sched(SpawnMonitor)
    \/ \E n \in AgentNames : OpsCall(CallStartAgent(Operator, n))
    \/ \E n \in AgentNames : OpsCall(CallStopAgent(Operator, n))
    \/ \E n \in AgentNames : OpsCall(CallRestartAgent(Operator, n))
    \/ OpsCall(CallStopAllAgents(Operator))
    \/ OpsCall(GetAgentStatus(Operator))
    \/ \E p \in OpsProcs : Runs(p) /\ Sched(StartAgent(p))
    \/ \E p \in OpsProcs : Runs(p) /\ Sched(StopAgent(p))
    \/ \E p \in OpsProcs : Runs(p) /\ Sched(StopAwaited(p))
    \/ \E p \in OpsProcs : Runs(p) /\ Sched(RestartPause(p))
    \/ \E p \in OpsProcs : Runs(p) /\ Sched(StartAllStart(p))
    \/ \E p \in OpsProcs : Runs(p) /\ Sched(StartAllReturn(p))
    \/ \E p \in OpsProcs : Runs(p) /\ Sched(StopAllStop(p))
    \/ \E p \in OpsProcs : Runs(p) /\ Sched(StopAllAwaited(p))
    \/ \E p \in OpsProcs : Runs(p) /\ Sched(StopAllReturn(p))
    \/ Runs(Monitor) /\ Sched(MonitorWhile)
    \/ Runs(Monitor) /\ Sched(MonitorScan)
    \/ Runs(Monitor) /\ Sched(MonitorSleep)
    \/ Runs(Monitor) /\ Sched(MonitorBackoff)
    \/ Sched(ReleaseTasks)
    \/ \E t \in TaskIds : Env /\ Sched(TaskReturns(t))
    \/ \E t \in TaskIds : Env /\ Sched(TaskFails(t))
    \/ \E t \in TaskIds : \E o \in {"done", "cancelled", "failed"} :
         Env /\ Sched(TaskCancelled(t, o))

OpsSpec == Init /\ [][OpsNext]_vars

\* The program as main() starts it, with monitor_agents scheduled once
\* start_all_agents has returned, and an operator that starts workers and shuts
\* the scheduler down.
WatchNext ==
    \/ Env /\ Sched(MainRegister)
    \/ Env /\ Sched(MainStartAll)
    \/ Env /\ proc[Main].pc = "main_sleep" /\ Sched(SpawnMonitor)
    \/ \E n \in AgentNames : OpsCall(CallStartAgent(Operator, n))
    \/ OpsCall(CallStopAllAgents(Operator))
    \/ \E p \in OpsProcs : Runs(p) /\ Sched(StartAgent(p))
    \/ \E p \in OpsProcs : Runs(p) /\ Sched(StopAgent(p))
    \/ \E p \in OpsProcs : Runs(p) /\ Sched(StopAwaited(p))
    \/ \E p \in OpsProcs : Runs(p) /\ Sched(RestartPause(p))
    \/ \E p \in OpsProcs : Runs(p) /\ Sched(StartAllStart(p))
    \/ \E p \in OpsProcs : Runs(p) /\ Sched(StartAllReturn(p))
    \/ \E p \in OpsProcs : Runs(p) /\ Sched(StopAllStop(p))
    \/ \E p \in OpsProcs : Runs(p) /\ Sched(StopAllAwaited(p))
    \/ \E p \in OpsProcs : Runs(p) /\ Sched(StopAllReturn(p))
    \/ Runs(Monitor) /\ Sched(MonitorWhile)
    \/ Runs(Monitor) /\ Sched(MonitorScan)
    \/ Runs(Monitor) /\ Sched(MonitorSleep)
    \/ Runs(Monitor) /\ Sched(MonitorBackoff)
    \/ Sched(ReleaseTasks)
    \/ \E t \in TaskIds : Env /\ Sched(TaskReturns(t))
    \/ \E t \in TaskIds : Env /\ Sched(TaskFails(t))
    \/ \E t \in TaskIds : \E o \in {"done", "cancelled", "failed"} :
         Env /\ Sched(TaskCancelled(t, o))

WatchSpec == Init /\ [][WatchNext]_vars

\* The step coroutine p takes when the event loop resumes it inside a method of
\* the scheduler.
Resumes(p) ==
    \/ StartAgent(p)
    \/ StopAgent(p)
    \/ StopAwaited(p)
    \/ RestartPause(p)
    \/ StartAllStart(p)
    \/ StartAllReturn(p)
    \/ StopAllStop(p)
    \/ StopAllAwaited(p)
    \/ StopAllReturn(p)

\* The step monitor_agents takes in its own loop.
MonitorResumes == MonitorWhile \/ MonitorScan \/ MonitorSleep \/ MonitorBackoff

\* The event loop runs every coroutine that is ready, and every sleep ends.  A
\* worker task that is cancelled ends: the start() of every agent catches
\* CancelledError and returns.  Nothing else makes a worker task end.
WatchFair ==
    /\ WF_vars(Env /\ Sched(MainStartAll))
    /\ WF_vars(Sched(ReleaseTasks))
    /\ \A p \in OpsProcs : WF_vars(Runs(p) /\ Sched(Resumes(p)))
    /\ WF_vars(Runs(Monitor) /\ Sched(MonitorResumes))
    /\ \A t \in TaskIds : WF_vars(\E o \in {"done", "cancelled", "failed"} :
                                     Env /\ Sched(TaskCancelled(t, o)))

FairWatchSpec == WatchSpec /\ WatchFair

\* The program as main() starts it, with an operator calling start_agent,
\* stop_agent and restart_agent one call after the other.
LifeProcs == {Operator, Main}

LifeCall(A) ==
    /\ Env
    /\ schedCalls < MaxLifeCalls
    /\ schedCalls' = schedCalls + 1
    /\ A
    /\ UNCHANGED <<storeVars, agentVars>>

LifeNext ==
    \/ Env /\ Sched(MainRegister)
    \/ Env /\ Sched(MainStartAll)
    \/ \E n \in AgentNames : LifeCall(CallStartAgent(Operator, n))
    \/ \E n \in AgentNames : LifeCall(CallStopAgent(Operator, n))
    \/ \E n \in AgentNames : LifeCall(CallRestartAgent(Operator, n))
    \/ \E p \in LifeProcs : Runs(p) /\ Sched(StartAgent(p))
    \/ \E p \in LifeProcs : Runs(p) /\ Sched(StopAgent(p))
    \/ \E p \in LifeProcs : Runs(p) /\ Sched(StopAwaited(p))
    \/ \E p \in LifeProcs : Runs(p) /\ Sched(RestartPause(p))
    \/ \E p \in LifeProcs : Runs(p) /\ Sched(StartAllStart(p))
    \/ \E p \in LifeProcs : Runs(p) /\ Sched(StartAllReturn(p))
    \/ Sched(ReleaseTasks)
    \/ \E t \in TaskIds : Env /\ Sched(TaskReturns(t))
    \/ \E t \in TaskIds : Env /\ Sched(TaskFails(t))
    \/ \E t \in TaskIds : \E o \in {"done", "cancelled", "failed"} :
         Env /\ Sched(TaskCancelled(t, o))

LifeSpec == Init /\ [][LifeNext]_vars

\* The event loop runs every coroutine that is ready.  Nothing makes a worker
\* task end, and nothing makes it end when it is cancelled: a coroutine may catch
\* CancelledError and go on.
LifeFair ==
    /\ WF_vars(Env /\ Sched(MainStartAll))
    /\ WF_vars(Sched(ReleaseTasks))
    /\ \A p \in LifeProcs :
         /\ WF_vars(Runs(p) /\ Sched(StartAgent(p)))
         /\ WF_vars(Runs(p) /\ Sched(StopAgent(p)))
         /\ WF_vars(Runs(p) /\ Sched(StopAwaited(p)))
         /\ WF_vars(Runs(p) /\ Sched(RestartPause(p)))
         /\ WF_vars(Runs(p) /\ Sched(StartAllStart(p)))
         /\ WF_vars(Runs(p) /\ Sched(StartAllReturn(p)))

FairLifeSpec == LifeSpec /\ LifeFair

\* The program as main() starts it, with two callers of stop_agent and
\* restart_agent that run beside each other.
RaceProcs == Users \cup {Main}

RaceNext ==
    \/ Env /\ Sched(MainRegister)
    \/ Env /\ Sched(MainStartAll)
    \/ \E p \in Users : \E n \in AgentNames : LifeCall(CallStopAgent(p, n))
    \/ \E p \in Users : \E n \in AgentNames : LifeCall(CallRestartAgent(p, n))
    \/ \E p \in RaceProcs : Runs(p) /\ Sched(StartAgent(p))
    \/ \E p \in RaceProcs : Runs(p) /\ Sched(StopAgent(p))
    \/ \E p \in RaceProcs : Runs(p) /\ Sched(StopAwaited(p))
    \/ \E p \in RaceProcs : Runs(p) /\ Sched(RestartPause(p))
    \/ \E p \in RaceProcs : Runs(p) /\ Sched(StartAllStart(p))
    \/ \E p \in RaceProcs : Runs(p) /\ Sched(StartAllReturn(p))
    \/ Sched(ReleaseTasks)
    \/ \E t \in TaskIds : Env /\ Sched(TaskReturns(t))
    \/ \E t \in TaskIds : Env /\ Sched(TaskFails(t))
    \/ \E t \in TaskIds : \E o \in {"done", "cancelled", "failed"} :
         Env /\ Sched(TaskCancelled(t, o))

RaceSpec == Init /\ [][RaceNext]_vars

\* The program as main() runs it: the agents are registered and started once,
\* signals create shutdown tasks, and no coroutine ever calls monitor_agents.
MainNext ==
    \/ Sched(MainRegister)
    \/ Sched(MainStartAll)
    \/ Sched(MainSleep)
    \/ Sched(Signal)
    \/ \E p \in Shutdowns : Sched(Shutdown(p))
    \/ \E p \in Procs : Sched(StartAllStart(p))
    \/ \E p \in Procs : Sched(StartAllReturn(p))
    \/ \E p \in Procs : Sched(StopAllStop(p))
    \/ \E p \in Procs : Sched(StopAllAwaited(p))
    \/ \E p \in Procs : Sched(StopAllReturn(p))
    \/ \E t \in TaskIds : Sched(TaskReturns(t))
    \/ \E t \in TaskIds : Sched(TaskFails(t))
    \/ \E t \in TaskIds : \E o \in {"done", "cancelled", "failed"} :
         Sched(TaskCancelled(t, o))

MainSpec == Init /\ [][MainNext]_vars

\* The event loop runs every coroutine that is ready.  Signals and the end of a
\* worker task are events of the environment: nothing forces them.
MainFair ==
    /\ WF_vars(Sched(MainRegister))
    /\ WF_vars(Sched(MainStartAll))
    /\ \A p \in Procs :
         /\ WF_vars(Sched(StartAllStart(p)))
         /\ WF_vars(Sched(StartAllReturn(p)))
         /\ WF_vars(Sched(StopAllStop(p)))
         /\ WF_vars(Sched(StopAllAwaited(p)))
         /\ WF_vars(Sched(StopAllReturn(p)))
    /\ \A p \in Shutdowns : WF_vars(Sched(Shutdown(p)))
    /\ \A t \in TaskIds : WF_vars(\E o \in {"done", "cancelled", "failed"} :
                                     Sched(TaskCancelled(t, o)))

FairMainSpec == MainSpec /\ MainFair

\* Every agent's loop, each in a task of its own.
LoopNext ==
    \/ ~Faulting /\ Tidy /\ \E k \in AgentKinds : SpawnWorker(k)
    \/ ~Faulting /\ Tidy /\ \E t \in TaskIds : WorkerStarts(t)
    \/ ~Faulting /\ Tidy /\ \E t \in TaskIds : WorkerIterates(t)
    \/ ~Faulting /\ Tidy /\ \E t \in TaskIds : WorkerFaults(t)
    \/ \E t \in TaskIds : FaultHandled(t)
    \/ ~Faulting /\ Tidy /\ \E t \in TaskIds : WorkerWakes(t)
    \/ ~Faulting /\ Tidy /\ \E t \in TaskIds : CancelWorker(t)
    \/ ~Faulting /\ Tidy /\ \E t \in TaskIds : WorkerCancelled(t)
    \/ Sched(ReleaseTasks)

LoopSpec == Init /\ [][LoopNext]_vars

\* The scheduler's lifecycle operations, called one after the other by one caller
\* beside main(), with the worker tasks running the agents' loops.
Quiet == Env /\ ~Faulting

\* main() has started the agents and sleeps; no exception is in flight.
Started == ~Faulting /\ proc[Main].pc = "main_sleep"

StopNext ==
    \/ Quiet /\ Sched(MainRegister)
    \/ Quiet /\ Sched(MainStartAll)
    \/ \E n \in AgentNames : Started /\ LifeCall(CallStartAgent(Operator, n))
    \/ \E n \in AgentNames : Started /\ LifeCall(CallStopAgent(Operator, n))
    \/ \E n \in AgentNames : Started /\ LifeCall(CallRestartAgent(Operator, n))
    \/ \E p \in LifeProcs : ~Faulting /\ Runs(p) /\ Sched(StartAgent(p))
    \/ \E p \in LifeProcs : ~Faulting /\ Runs(p) /\ Sched(StopAgent(p))
    \/ \E p \in LifeProcs : ~Faulting /\ Runs(p) /\ Sched(StopAwaited(p))
    \/ \E p \in LifeProcs : ~Faulting /\ Runs(p) /\ Sched(RestartPause(p))
    \/ \E p \in LifeProcs : ~Faulting /\ Runs(p) /\ Sched(StartAllStart(p))
    \/ \E p \in LifeProcs : ~Faulting /\ Runs(p) /\ Sched(StartAllReturn(p))
    \/ Sched(ReleaseTasks)
    \/ \E t \in TaskIds : Quiet /\ WorkerStarts(t)
    \/ \E t \in TaskIds : Quiet /\ WorkerIterates(t)
    \/ \E t \in TaskIds : Quiet /\ WorkerFaults(t)
    \/ \E t \in TaskIds : FaultHandled(t)
    \/ \E t \in TaskIds : Quiet /\ WorkerWakes(t)
    \/ \E t \in TaskIds : Quiet /\ WorkerCancelled(t)

StopSpec == Init /\ [][StopNext]_vars

(***************************************************************************)
(* The claims                                                              *)
(***************************************************************************)
Quiescent == \A c \in Clients : pc[c] = "idle"

SnapValue(s, h) == Deref(s[1], h)

\* C1: a snapshot returned by get_state, or handed to an observer, keeps the value
\* it had when it was returned, whatever update_state, add_decision or add_alert
\* does to the store afterwards.
C1_SnapshotNeverMutated ==
    [][/\ \A c \in Clients :
            (snap[c] # <<>> /\ snap'[c] = snap[c])
                => SnapValue(snap[c], heap') = SnapValue(snap[c], heap)
       /\ \A o \in Observers :
            (obsSnap[o] # <<>> /\ obsSnap'[o] = obsSnap[o])
                => SnapValue(obsSnap[o], heap') = SnapValue(obsSnap[o], heap)]_vars

\* C2: every snapshot get_state returns is the state as the last completed
\* mutation left it: no snapshot shows a part of an update_state call, or its
\* fields without its timestamp.
C2_SnapshotsAtomic ==
    [][\A c \in Clients :
         (pc[c] = "copy" /\ pc'[c] = "idle")
             => SnapValue(snap'[c], heap') = hist.stable]_vars

\* C2 witness: a get_state call that arrived while an update was partly applied
\* has returned its snapshot.
C2_Witness ==
    \E c \in hist.tornGets : pc[c] = "idle" /\ snap[c] # <<>>

\* The tasks of agent n that have not terminated.
LiveTasks(n) == {t \in TaskIds : taskName[t] = n /\ Live(t)}

\* C3: at most one task that has not terminated exists per agent name.
C3_OneLiveTaskPerName ==
    \A n \in AgentNames : Cardinality(LiveTasks(n)) <= 1

\* C4: while the task recorded for an agent has not terminated, no step spawns
\* another task for that agent or records another task in its place.
C4_StartOfRunningIsNoOp ==
    [][\A n \in AgentNames :
         (tasks[n] # 0 /\ Live(tasks[n]))
             => /\ tasks'[n] \in {0, tasks[n]}
                /\ \A t \in TaskIds :
                     (taskSt[t] = "free" /\ taskSt'[t] # "free") => taskName'[t] # n]_vars

\* C5: when the recorded task of an agent has ended with an exception while the
\* scheduler is running, the agent is eventually running again (or the scheduler
\* has been stopped meanwhile).
C5_CrashedIsRestarted ==
    \A n \in AgentNames :
        (running /\ tasks[n] # 0 /\ Crashed(tasks[n]))
            ~> (~running \/ (tasks[n] # 0 /\ Live(tasks[n])))

\* C6: between operations of the store, decision_history has at most 100 entries
\* and alert_history at most 50.
C6_HistoriesBounded ==
    lockOwner = "none" =>
        /\ Len(heap[state.decision_history]) <= DecisionHistoryLimit
        /\ Len(heap[state.alert_history]) <= AlertHistoryLimit

\* The sequence lo, lo+1, ..., hi.
Range(lo, hi) == [i \in 1..(hi - lo + 1) |-> lo + i - 1]

Min(a, b) == IF a <= b THEN a ELSE b

\* C7: after n calls of add_decision, decision_history is the last min(n, 100)
\* decisions in call order and current_decision is the n-th decision.
C7_DecisionHistoryFifo ==
    Quiescent =>
        /\ heap[state.decision_history]
             = Range(nDec - Min(nDec, DecisionHistoryLimit) + 1, nDec)
        /\ state.current_decision = nDec

\* C7 witness: the 101st call has returned and decision 1 is gone.
C7_Witness ==
    /\ Quiescent
    /\ nDec = DecisionHistoryLimit + 1
    /\ Len(heap[state.decision_history]) = DecisionHistoryLimit
    /\ heap[state.decision_history][1] = 2
    /\ state.current_decision = DecisionHistoryLimit + 1

\* C8: after n calls of add_alert, alert_history is the last min(n, 50) alerts in
\* call order and active_alerts holds all n alerts in call order, also after
\* clear_resolved_alerts.
C8_AlertHistoryFifo ==
    Quiescent =>
        /\ heap[state.alert_history]
             = Range(nAlert - Min(nAlert, AlertHistoryLimit) + 1, nAlert)
        /\ heap[state.active_alerts] = Range(1, nAlert)

\* C8 witness: the 51st call has returned, after a clear_resolved_alerts call.
C8_Witness ==
    /\ Quiescent
    /\ hist.cleared
    /\ nAlert = AlertHistoryLimit + 1
    /\ Len(heap[state.alert_history]) = AlertHistoryLimit
    /\ Len(heap[state.active_alerts]) = AlertHistoryLimit + 1

\* C9: when the update_state calls made so far name pairwise disjoint fields,
\* then once they have all returned every field one of them named holds the
\* value that call supplied.
C9_DisjointUpdatesMerge ==
    (Quiescent /\ \A f \in ScalarFields : hist.writers[f] <= 1)
        => \A f \in ScalarFields :
             hist.writers[f] = 1 => state[f] = hist.lastArrived[f]

\* C9 witness: two calls with disjoint fields were in the store at the same time
\* and both have returned.
C9_Witness ==
    /\ Quiescent
    /\ hist.overlap
    /\ \A f \in ScalarFields : hist.writers[f] = 1

\* C10: the store serves the calls in their order of arrival, and once all calls
\* have returned each field holds the value of the call that arrived last among
\* those naming it.
C10_ArrivalOrder ==
    /\ lockOwner # "none" => lockOwner = Head(hist.inflight)
    /\ Quiescent =>
         \A f \in ScalarFields :
            hist.writers[f] > 0 => state[f] = hist.lastArrived[f]

\* C10 witness: two calls that wrote the same field with different values were in
\* the store at the same time, and both have returned.
C10_Witness ==
    /\ Quiescent
    /\ hist.overlap
    /\ hist.writers["battery_soc"] = 2
    /\ Cardinality(hist.supplied["battery_soc"]) = 2

\* C11: while an update_state call is inside the store, no field of the live
\* state other than the fields its delta names and the timestamp changes: the
\* other scalar fields, the current decision, the two histories and the active
\* alerts keep their value.
C11_UpdateFrame ==
    [][\A c \in Clients : \A f \in DOMAIN state :
         (op[c].kind = "update_state" /\ lockOwner = c
            /\ f \notin hist.named[c] \cup {"timestamp"})
             => Deref(state', heap')[f] = Deref(state, heap)[f]]_vars

\* C11 witness: a call naming load_kwh alone has applied its delta and refreshed
\* the timestamp while the decision history held an entry.
C11_Witness ==
    \E c \in Clients :
        /\ pc[c] = "notify"
        /\ hist.named[c] = {"load_kwh"}
        /\ state.load_kwh = 10
        /\ state.timestamp = 1
        /\ state.battery_soc = SystemState.battery_soc
        /\ heap[state.decision_history] = <<1>>
        /\ state.current_decision = 1

\* C12: an update_state call sets the timestamp to the value datetime.now()
\* returns during that call, and the timestamps of the successive snapshots a
\* reader or an observer is given never decrease.
C12_TimestampMonotone ==
    [][/\ \A c \in Clients :
            (pc[c] = "setattr" /\ pc'[c] = "notify") => state'.timestamp = now'
       /\ \A c \in Clients :
            (snap[c] # <<>> /\ snap'[c] # <<>>)
                => snap'[c][1].timestamp >= snap[c][1].timestamp
       /\ \A o \in Observers :
            (obsSnap[o] # <<>> /\ obsSnap'[o] # <<>>)
                => obsSnap'[o][1].timestamp >= obsSnap[o][1].timestamp]_vars

\* The names the specification exposes for update_state, among the fields modelled.
Exposed == {"battery_soc", "load_kwh", "current_decision"}

\* C13: an update_state call whose delta names anything outside the exposed
\* fields ends with an error, and while it is inside the store neither of the
\* three lists of the state is replaced.
C13_UnexposedRejected ==
    [][\A c \in Clients :
         (op[c].kind = "update_state" /\ lockOwner = c
            /\ hist.named[c] \ Exposed # {})
             => /\ pc'[c] = "idle" => pc[c] = "raise"
                /\ \A f \in ListFields : state'[f] = state[f]]_vars

\* C14: while an update_state call whose delta holds a name that makes setattr
\* raise is inside the store, the state keeps the value it had before the call
\* (no field applied, the timestamp not refreshed) and no observer is invoked.
C14_FaultLeavesState ==
    [][\A c \in Clients :
         (op[c].kind = "update_state" /\ lockOwner = c
            /\ hist.named[c] \cap Methods # {})
             => /\ Deref(state', heap') = Deref(state, heap)
                /\ hist'.delivered = hist.delivered]_vars

\* How often observer o is registered, and how often x occurs in sequence s.
Registrations(o) == Cardinality({i \in 1..Len(subscribers) : subscribers[i] = o})

Occurrences(s, x) == Cardinality({i \in 1..Len(s) : s[i] = x})

Ordered(s) == \A i, j \in 1..Len(s) : i < j => s[i] <= s[j]

\* C15: when a successful update_state call returns, every observer registered
\* by then has been invoked for this update once per registration, and every
\* invocation was given a snapshot equal to the state this update committed.
C15_EveryObserverNotified ==
    [][\A c \in Clients :
         /\ (pc[c] = "notify" /\ pc'[c] = "idle")
               => \A o \in Observers :
                    Occurrences(hist.delivered[o], hist.commitOf[c]) = Registrations(o)
         /\ (pc[c] = "notify" /\ pc'[c] = "callback")
               => SnapValue(obsSnap'[subscribers[op[c].idx]], heap') = hist.stable]_vars

\* C15 witness: an observer that subscribed after the first update had returned
\* has been invoked for the second update alone, and that call has returned.
C15_Witness ==
    /\ Quiescent
    /\ hist.commits = 2
    /\ \E o \in Observers :
         /\ hist.delivered[o] = <<2>>
         /\ SnapValue(obsSnap[o], heap) = hist.stable

\* C16: every observer is invoked for the updates in the order in which they
\* were committed.
C16_CommitOrder ==
    \A o \in Observers : Ordered(hist.delivered[o])

\* C16 witness: two update_state calls were inside the store at the same time
\* and an observer has been invoked for both.
C16_Witness ==
    /\ hist.overlap
    /\ \E o \in Observers : hist.delivered[o] = <<1, 2>>

\* C17: the lock of the store is not held by a writer whose observer callback
\* is running or suspended.
C17_NoCallbackUnderLock ==
    \A c \in Clients : pc[c] = "callback" => lockOwner # c

\* C18: when an update_state call during which an observer raised returns, every
\* observer that does not raise has been invoked for this update once per
\* registration, and has been invoked for the updates in commit order.
C18_FaultIsolated ==
    [][\A c \in hist.observerFault :
         (pc[c] = "notify" /\ pc'[c] = "idle")
             => \A o \in Observers \ Raising :
                  /\ Occurrences(hist.delivered[o], hist.commitOf[c]) = Registrations(o)
                  /\ Ordered(hist.delivered[o])]_vars

\* C18 witness: the raising observer is registered before the other one, it
\* has raised in two updates, and the other one has been invoked for both.
C18_Witness ==
    /\ Quiescent
    /\ subscribers = <<"o2", "o1">>
    /\ hist.delivered["o2"] = <<1, 2>>
    /\ hist.delivered["o1"] = <<1, 2>>

\* C19: an update_state call during which an observer raised returns normally,
\* not with an error, and the state it leaves is the state it committed.
C19_FaultContained ==
    [][\A c \in hist.observerFault :
         (pc[c] # "idle" /\ pc'[c] = "idle")
             => /\ pc[c] = "notify"
                /\ Deref(state', heap') = hist.stable]_vars

\* C19 witness: a call that set battery_soc has returned after an observer
\* raised during its notification, and the value is in the state.
C19_Witness ==
    \E c \in hist.observerFault :
        /\ pc[c] = "idle"
        /\ hist.commits = 1
        /\ state.battery_soc \in ScalarValues

\* C20: a name that is registered keeps the instance it is registered with:
\* registering the name again does not replace the instance.
C20_DuplicateRejected ==
    [][\A n \in AgentNames : agents[n] # 0 => agents'[n] = agents[n]]_vars

\* The step in which coroutine p calls get_agent_status.
StatusStep(p) ==
    /\ proc[p].pc = "idle"
    /\ proc'[p].op = "status"
    /\ schedCalls' = schedCalls + 1

\* The last stop_agent(n) of some caller has returned and nothing started n since.
StopCompleted(n) ==
    /\ tasks[n] = 0
    /\ \E q \in Procs : proc[q].pc = "idle" /\ proc[q].op = "none"
                          /\ proc[q].result = "ok" /\ proc[q].name = n

\* C21: get_agent_status reports a worker whose recorded task is running with
\* running true, and a worker whose stop_agent has completed with running false.
C21_StatusFollowsLifecycle ==
    [][\A p \in Users : StatusStep(p) =>
         \A n \in AgentNames :
            /\ (tasks[n] # 0 /\ Live(tasks[n]))
                   => /\ proc'[p].result = "ok"
                      /\ n \in DOMAIN proc'[p].status
                      /\ proc'[p].status[n].running
            /\ StopCompleted(n)
                   => /\ proc'[p].result = "ok"
                      /\ n \in DOMAIN proc'[p].status
                      /\ ~proc'[p].status[n].running]_vars

\* C22: get_agent_status never raises, and the mapping it returns has an entry
\* for every registered name.
C22_StatusTotal ==
    [][\A p \in Users : StatusStep(p) =>
         /\ proc'[p].result = "ok"
         /\ DOMAIN proc'[p].status = Registered]_vars

\* The step in which stop_agent, called by p itself, finds no entry for its name.
StopOfMissing(p) ==
    /\ proc[p].pc = "stop"
    /\ proc[p].op = "stop"
    /\ tasks[proc[p].name] = 0
    /\ proc'[p] # proc[p]

\* C23: stop_agent for a name without a recorded task (stopped before, or never
\* started) returns without an error and leaves the registry, the task table and
\* the tasks as they are.
C23_StopIdempotent ==
    [][\A p \in Procs : StopOfMissing(p) =>
         /\ proc'[p].pc = "idle"
         /\ proc'[p].result = "noop"
         /\ UNCHANGED <<agents, tasks, taskSt, taskName>>]_vars

\* C23 witness: main() started both workers, the operator stopped the controller,
\* and its second stop_agent("controller") has returned as a no-op.
C23_Witness ==
    /\ proc[Operator].pc = "idle"
    /\ proc[Operator].result = "noop"
    /\ schedCalls = 2
    /\ proc[Main].pc = "main_sleep"
    /\ tasks["controller"] = 0
    /\ tasks["executor"] # 0

\* A step of restart_agent called by p itself.
RestartStep(p) == proc[p].op = "restart" /\ proc'[p] # proc[p]

\* This step creates a task.
Spawns == \E t \in TaskIds : taskSt[t] = "free" /\ taskSt'[t] = "running"

\* C26: restart_agent runs stop_agent, then the pause, then start_agent.  When the
\* pause begins the task stop_agent found or awaited is done and the name has no
\* entry; no step before start_agent creates a task; and when restart_agent
\* returns the name's entry is a task created by that last step, and it is live.
C26_RestartOrder ==
    [][\A p \in Procs : RestartStep(p) =>
         LET name == proc[p].name
         IN /\ proc[p].pc \in {"stop", "stop_await", "restart_sleep", "start"}
            /\ proc[p].pc = "stop" => proc'[p].pc \in {"stop_await", "restart_sleep"}
            /\ proc[p].pc = "stop_await"
                  => proc'[p].pc = "restart_sleep" \/ proc'[p].result = "error"
            /\ proc[p].pc = "restart_sleep" => proc'[p].pc = "start"
            /\ proc[p].pc = "start" => proc'[p].pc = "idle"
            /\ proc'[p].pc = "restart_sleep"
                  => /\ tasks'[name] = 0
                     /\ proc[p].pc = "stop" => (tasks[name] = 0 \/ Done(tasks[name]))
                     /\ \A w \in proc[p].waits : Done(w[2])
            /\ Spawns => proc[p].pc = "start"
            /\ proc'[p].result = "restarted"
                  => /\ tasks'[name] # 0
                     /\ taskSt[tasks'[name]] = "free"
                     /\ taskSt'[tasks'[name]] = "running"]_vars

\* C26 witness: the operator's restart_agent("controller") has returned after
\* main() had started both workers, and a live task is recorded for each.
C26_Witness ==
    /\ proc[Operator].pc = "idle"
    /\ proc[Operator].result = "restarted"
    /\ proc[Main].pc = "main_sleep"
    /\ \A n \in AgentNames : tasks[n] # 0 /\ Live(tasks[n])

\* C24: a stop_agent call that finds the worker's task running returns.
C24_StopReturns ==
    \A p \in LifeProcs :
        (/\ proc[p].op = "stop"
         /\ proc[p].pc = "stop"
         /\ tasks[proc[p].name] # 0
         /\ Live(tasks[proc[p].name])) ~> (proc[p].pc = "idle")

\* The stop_agent calls of stop_all_agents, run by p, that return in this step.
StopsEnding(p) ==
    IF proc[p].pc = "stop_all" /\ proc'[p].pc = "stop_all"
    THEN proc[p].waits \ proc'[p].waits
    ELSE {}

\* C25: every stop_agent of stop_all_agents that has waited for its task ends
\* with the task terminated and the handle of that task out of the task table,
\* whatever the task ended with.
C25_StopAllStopsEach ==
    [][\A p \in Procs : \A w \in StopsEnding(p) :
         /\ Done(w[2])
         /\ tasks'[w[1]] # w[2]]_vars

\* The step in which monitor_agents calls restart_agent.
MonitorRestarts == proc[Monitor].pc = "monitor_scan" /\ proc'[Monitor].pc = "stop"

\* C27: when monitor_agents calls restart_agent(name), the task recorded for name
\* is done, not cancelled, and ended with an exception.
C27_RestartsOnlyCrashed ==
    [][MonitorRestarts =>
         LET name == proc'[Monitor].name
         IN tasks[name] # 0 /\ Crashed(tasks[name])]_vars

\* C28: no exception leaves monitor_agents.  The coroutine ends only where its
\* while condition fails, the pause after a caught exception leads back to the
\* while condition, and the loop scans again when the condition holds.
C28_MonitorSurvivesFault ==
    [][/\ proc'[Monitor].result # "error"
       /\ (proc[Monitor].op = "monitor" /\ proc'[Monitor].op # "monitor")
             => /\ proc[Monitor].pc = "monitor_while"
                /\ ~MonitorContinues
       /\ (proc[Monitor].pc = "monitor_backoff" /\ proc'[Monitor] # proc[Monitor])
             => proc'[Monitor].pc = "monitor_while"
       /\ (/\ proc[Monitor].pc = "monitor_while"
           /\ proc'[Monitor] # proc[Monitor]
           /\ MonitorContinues)
             => proc'[Monitor].pc = "monitor_scan"]_vars

\* C28 witness: a restart_agent called by the monitor has raised, and the monitor
\* is in its for loop again.
C28_Witness ==
    /\ proc[Monitor].result = "caught"
    /\ proc[Monitor].pc = "monitor_scan"

\* C29: once stop_all_agents has set the shutdown event, monitor_agents ends, and
\* its while condition never lets it into the for loop again.
C29_MonitorExits ==
    /\ (shutdownEvent /\ proc[Monitor].op = "monitor") ~> (proc[Monitor].op = "none")
    /\ [][(shutdownEvent /\ proc[Monitor].pc = "monitor_while")
             => proc'[Monitor].pc # "monitor_scan"]_vars

\* C29 witness: stop_all_agents was called and has returned, monitor_agents has
\* returned too, and a task it started on its way out is running.
C29_Witness ==
    /\ shutdownEvent
    /\ proc[Monitor].pc = "idle"
    /\ proc[Monitor].result = "ok"
    /\ proc[Operator].pc = "idle"
    /\ \E n \in AgentNames : tasks[n] # 0 /\ Live(tasks[n])

\* stop_all_agents has been called and every call of it has returned.
ShutdownDone ==
    /\ shutdownEvent
    /\ \A p \in Procs : proc[p].pc \notin {"shutdown", "stop_all"}

\* C30: once stop_all_agents has completed, no step of monitor_agents, or of a
\* restart_agent it is running, creates a worker task.
C30_ShutdownIsFinal ==
    [][(ShutdownDone /\ proc'[Monitor] # proc[Monitor]) => ~Spawns]_vars

\* The stop_all_agents of shutdown task q has begun and is suspended in its
\* gather, waiting for a task it cancelled.
ShutdownInProgress(q) ==
    proc[q].op = "shutdown" /\ proc[q].pc = "stop_all" /\ proc[q].waits # {}

\* C31: while the stop_all_agents of one shutdown is in progress, no other
\* shutdown task begins stop_all_agents, and no task that one stop_agent has
\* cancelled and awaits is taken up by another stop_agent.
C31_ShutdownOnce ==
    [][\A p \in Shutdowns :
         /\ (proc[p].pc = "shutdown" /\ proc'[p].pc = "stop_all")
               => ~\E q \in Shutdowns \ {p} : ShutdownInProgress(q)
         /\ \A w \in proc'[p].waits \ proc[p].waits :
               ~\E q \in Shutdowns \ {p} : w \in proc[q].waits]_vars

\* main() has returned, so that asyncio.run ends and the process exits.
MainReturned == proc[Main].pc = "idle" /\ proc[Main].op = "none" /\ agents # [n \in AgentNames |-> 0]

\* C32: after a termination signal, every shutdown completes and main() returns.
C32_ShutdownThenExit ==
    (signals > 0) ~> (ShutdownDone /\ MainReturned)

\* C33: when a stop_agent resumes from `await task`, the entry of its name is
\* still the task it cancelled: no other stop_agent, start_agent or
\* restart_agent on the name ran in between.  It then discards the handle and
\* raises nothing, unless the task itself ended with an exception.
C33_LifecycleSerialized ==
    [][\A p \in Procs :
         (proc[p].pc = "stop_await" /\ proc'[p] # proc[p])
            => \A w \in proc[p].waits :
                  /\ tasks[w[1]] = w[2]
                  /\ taskSt[w[2]] # "failed" => proc'[p].result # "error"]_vars

(***************************************************************************)
(* C34: a fault raised inside one iteration of a worker's loop is caught   *)
(* inside the loop: when the exception has been handled the worker is in   *)
(* the sleep that precedes its next iteration, its task has not ended and  *)
(* its flag is still set.  This holds for every agent.                     *)
(***************************************************************************)
C34_FaultStaysInLoop ==
    [][\A t \in TaskIds :
         (workerPc[t] = "fault" /\ workerPc'[t] # "fault")
            => /\ workerPc'[t] = "sleep"
               /\ taskSt'[t] = "running"
               /\ agentRunning'[taskName[t]]]_vars


(***************************************************************************)
(* C35: a worker stopped by the supervisor exits cleanly: when stop_agent  *)
(* returns for a name, the agent's own get_status reports running false    *)
(* and no task of the agent is left running.                               *)
(***************************************************************************)
StopReturns(p, n) ==
    /\ proc[p].op = "stop"
    /\ proc[p].name = n
    /\ proc[p].pc # "idle"
    /\ proc'[p].pc = "idle"
    /\ proc'[p].result = "ok"

C35_StoppedWorkerExits ==
    [][\A p \in Procs : \A n \in AgentNames :
         StopReturns(p, n)
            => /\ ~get_status(n)'
               /\ \A t \in TaskIds : taskName'[t] = n => taskSt'[t] \notin {"running", "cancelling"}]_vars

(***************************************************************************)
(* ExecutorAgent._execute_action: one cycle reads a snapshot, computes the  *)
(* new battery_soc and load_kwh from it and writes them with update_state. *)
(***************************************************************************)
Max(a, b) == IF a >= b THEN a ELSE b

\* The action codes of a decision; X stands for every code that is none of A to E.
Actions == {"A", "B", "C", "D", "E", "X"}

\* load_kwh * 0.2 is computed on whole numbers: the exploration keeps to the
\* loads of which a fifth is a whole number.
Representable(action, load_kwh) == action = "D" => load_kwh % 5 = 0

soc_delta(action, battery_soc) ==
    CASE action = "A" -> Min(10, 100 - battery_soc)
      [] action = "B" -> 0 - Min(10, battery_soc)
      [] action = "E" -> 0 - Min(5, battery_soc)
      [] OTHER -> 0

load_shifted(action, load_kwh) ==
    IF action = "D" THEN Min(20, load_kwh \div 5) ELSE 0

\* Mutant: the steps are applied without looking at the room that is left.
ExecuteUnbounded(action, battery_soc, load_kwh) ==
    [battery_soc |->
        battery_soc + (CASE action = "A" -> 10 [] action = "B" -> -10
                         [] action = "E" -> -5 [] OTHER -> 0),
     load_kwh |-> load_kwh - (IF action = "D" THEN 20 ELSE 0)]

\* new_battery_soc and new_load_kwh, the keyword arguments of update_state.
execute_action(action, battery_soc, load_kwh) ==
    [battery_soc |-> Max(0, Min(100, battery_soc + soc_delta(action, battery_soc))),
     load_kwh |-> Max(0, load_kwh - load_shifted(action, load_kwh))]

Executor == "c1"
Ingestion == "c2"
Others == "c3"

\* The executor is between the return of get_state and the call of update_state:
\* there is no await in between, no other coroutine runs.
ExecSync == execPc = "read" /\ pc[Executor] = "idle"

\* Every coroutine is suspended or between two calls: the event loop may run any
\* of them.
Calm == ~ExecSync /\ \A c \in Clients : pc[c] \in {"idle", "waiting", "callback"}

ExecFrame == UNCHANGED <<schedVars, workerPc, agentRunning>>

\* state = await state_manager.get_state()
ExecRead ==
    /\ Calm
    /\ execPc = "idle"
    /\ cycles < MaxCycles
    /\ cycles' = cycles + 1
    /\ CallGetState(Executor)
    /\ execPc' = "read"
    /\ UNCHANGED <<calls, actionOf, applied>>
    /\ ExecFrame

\* From `decision = state.current_decision` to the call of update_state.
ExecWrite ==
    /\ ExecSync
    /\ LET s == snap[Executor][1]
           d == s.current_decision
       IN IF d = 0
          THEN /\ execPc' = "idle"
               /\ UNCHANGED <<storeVars, applied>>
          ELSE LET new == execute_action(actionOf[d], s.battery_soc, s.load_kwh)
               IN /\ Representable(actionOf[d], s.load_kwh)
                  /\ CallUpdateState(Executor, new)
                  /\ execPc' = "write"
                  /\ applied' = [applied EXCEPT ![d] =
                                   IF new.battery_soc # s.battery_soc
                                         \/ new.load_kwh # s.load_kwh
                                   THEN @ + 1 ELSE @]
                  /\ UNCHANGED calls
    /\ UNCHANGED <<actionOf, cycles>>
    /\ ExecFrame

\* update_state has returned: log 'executor_update'; the cycle is over.
ExecDone ==
    /\ execPc = "write"
    /\ pc[Executor] = "idle"
    /\ execPc' = "idle"
    /\ UNCHANGED <<storeVars, actionOf, applied, cycles>>
    /\ ExecFrame

\* A call of another agent, counted against the bound of the exploration.
ExecCall(A) ==
    /\ Calm
    /\ calls < MaxExecCalls
    /\ calls' = calls + 1
    /\ A
    /\ ExecFrame

\* A step inside the store.
ExecStep(A) == A /\ UNCHANGED <<calls, execVars>> /\ ExecFrame

\* DecisionAgent._make_decision: add_decision with a decision of action code a.
Decide(c, a) ==
    /\ pc[c] = "idle"
    /\ CallAddDecision(c)
    /\ actionOf' = Append(actionOf, a)
    /\ applied' = Append(applied, 0)
    /\ UNCHANGED <<execPc, cycles>>

\* The executor beside the ingestion agent, which writes load_kwh, and the other
\* agents, which decide and write fields of their own; one observer whose
\* callback awaits.
ExecNext ==
    \/ ExecRead
    \/ ExecWrite
    \/ ExecDone
    \/ \E v \in ScalarValues :
         ExecCall(CallUpdateState(Ingestion, [load_kwh |-> v]) /\ UNCHANGED execVars)
    \/ ExecCall(CallUpdateState(Others, <<>>) /\ UNCHANGED execVars)
    \/ \E a \in Actions : ExecCall(Decide(Others, a))
    \/ Calm /\ subscribers = <<>> /\ ExecStep(Subscribe("o1"))
    \/ \E c \in Clients : Calm /\ ExecStep(Wake(c))
    \/ \E c \in Clients : Calm /\ ExecStep(CallbackReturns(c))
    \/ \E c \in Clients : ExecStep(GetState(c))
    \/ \E c \in Clients : ExecStep(UpdateSetattr(c))
    \/ \E c \in Clients : ExecStep(UpdateTimestamp(c))
    \/ \E c \in Clients : ExecStep(NotifySubscriber(c))
    \/ \E c \in Clients : ExecStep(UpdateReturn(c))
    \/ \E c \in Clients : ExecStep(DecisionSetCurrent(c))
    \/ \E c \in Clients : ExecStep(DecisionAppend(c))
    \/ \E c \in Clients : ExecStep(DecisionTrim(c))

ExecSpec == Init /\ [][ExecNext]_vars

(***************************************************************************)
(* C36: no lost update.  When the executor's update_state assigns a field, *)
(* the field still holds the value of the snapshot the assigned value was  *)
(* computed from: no other writer's update was committed in between.       *)
(***************************************************************************)
ExecAssigns(f) ==
    /\ pc[Executor] = "setattr"
    /\ f \in DOMAIN op[Executor].delta
    /\ f \notin DOMAIN op'[Executor].delta

C36_NoLostUpdate ==
    [][\A f \in ScalarFields :
         ExecAssigns(f) => state[f] = snap[Executor][1][f]]_vars

(***************************************************************************)
(* C39: the executor applies each decision at most once: for one           *)
(* add_decision call, battery_soc and load_kwh are changed by the executor *)
(* in at most one of its cycles.                                           *)
(***************************************************************************)
C39_AppliedOnce == \A d \in DOMAIN applied : applied[d] <= 1

(***************************************************************************)
(* The executor alone with a store the other agents have filled: snapshots *)
(* at and between the ends of the ranges, every action code.               *)
(***************************************************************************)
Socs == {3, 50, 97}
Loads == {0, 50, 125}

SetCall(A) ==
    /\ Calm
    /\ calls < MaxSetCalls
    /\ calls' = calls + 1
    /\ A
    /\ ExecFrame

CycleNext ==
    \/ ExecRead
    \/ ExecWrite
    \/ ExecDone
    \/ \E b \in Socs : \E l \in Loads :
         SetCall(CallUpdateState(Others, [battery_soc |-> b, load_kwh |-> l])
                    /\ UNCHANGED execVars)
    \/ \E a \in Actions : SetCall(Decide(Others, a))
    \/ \E c \in Clients : ExecStep(GetState(c))
    \/ \E c \in Clients : ExecStep(UpdateSetattr(c))
    \/ \E c \in Clients : ExecStep(UpdateTimestamp(c))
    \/ \E c \in Clients : ExecStep(UpdateReturn(c))
    \/ \E c \in Clients : ExecStep(DecisionSetCurrent(c))
    \/ \E c \in Clients : ExecStep(DecisionAppend(c))
    \/ \E c \in Clients : ExecStep(DecisionTrim(c))

CycleSpec == Init /\ [][CycleNext]_vars

\* The executor calls update_state.
ExecWrites == execPc = "read" /\ execPc' = "write"

\* C40: every battery_soc the executor writes lies in 0..100 and every load_kwh it
\* writes is non-negative, for every action code and every snapshot with
\* battery_soc in 0..100 and load_kwh non-negative; for action C and for
\* unrecognised action codes both values are written back unchanged.
C40_WritesInRange ==
    [][ExecWrites =>
         LET s == snap[Executor][1]
             a == actionOf[s.current_decision]
             w == op'[Executor].delta
         IN (s.battery_soc \in 0..100 /\ s.load_kwh >= 0)
               => /\ w.battery_soc \in 0..100
                  /\ w.load_kwh >= 0
                  /\ a \notin {"A", "B", "D", "E"}
                        => w.battery_soc = s.battery_soc /\ w.load_kwh = s.load_kwh]_vars

\* C40 witness: the executor has read battery_soc 97 under a decision to charge
\* and writes 100; the load is written back as read.
C40_Witness ==
    /\ execPc = "write"
    /\ snap[Executor] # <<>>
    /\ snap[Executor][1].battery_soc = 97
    /\ snap[Executor][1].load_kwh = 125
    /\ snap[Executor][1].current_decision # 0
    /\ actionOf[snap[Executor][1].current_decision] = "A"
    /\ op[Executor].kind = "update_state"
    /\ op[Executor].delta = [battery_soc |-> 100, load_kwh |-> 125]

(***************************************************************************)
(* Every mutating operation of the store beside subscribed observers.      *)
(***************************************************************************)
PublishNext ==
    \/ \E c \in Writers : Counted(CallUpdateState(c, [battery_soc |-> 10]))
    \/ \E c \in Writers : Counted(CallAddDecision(c))
    \/ \E c \in Writers : Counted(CallAddAlert(c))
    \/ \E o \in Observers :
         Len(subscribers) < MaxObservers /\ Uncounted(Subscribe(o))
    \/ \E c \in Writers : Uncounted(Wake(c))
    \/ \E c \in Writers : Uncounted(UpdateSetattr(c))
    \/ \E c \in Writers : Uncounted(UpdateTimestamp(c))
    \/ \E c \in Writers : Uncounted(NotifySubscriber(c))
    \/ \E c \in Writers : Uncounted(CallbackReturns(c))
    \/ \E c \in Writers : Uncounted(CallbackRaises(c))
    \/ \E c \in Writers : Uncounted(UpdateReturn(c))
    \/ \E c \in Writers : Uncounted(DecisionSetCurrent(c))
    \/ \E c \in Writers : Uncounted(DecisionAppend(c))
    \/ \E c \in Writers : Uncounted(DecisionTrim(c))
    \/ \E c \in Writers : Uncounted(AlertAppendActive(c))
    \/ \E c \in Writers : Uncounted(AlertAppend(c))
    \/ \E c \in Writers : Uncounted(AlertTrim(c))

PublishSpec == Init /\ [][PublishNext]_vars

\* The call of client c returns from update_state, add_decision or add_alert.
MutationReturns(c) ==
    /\ op[c].kind \in {"update_state", "add_decision", "add_alert"}
    /\ pc[c] \in {"notify", "trim"}
    /\ pc'[c] = "idle"

\* C37: every change to the shared state is propagated: when add_decision or
\* add_alert returns, as when update_state returns, the call has refreshed the
\* timestamp and the last notification of every subscribed observer is the one
\* of this call.
C37_EveryChangePublished ==
    [][\A c \in Clients :
         MutationReturns(c)
            => /\ hist.commitOf[c] # 0
               /\ \A i \in DOMAIN subscribers :
                     /\ hist.delivered[subscribers[i]] # <<>>
                     /\ hist.delivered[subscribers[i]][Len(hist.delivered[subscribers[i]])]
                           = hist.commitOf[c]]_vars

(***************************************************************************)
(* An observer whose callback calls the store.  The callback runs in the   *)
(* coroutine of the update_state call that notifies it, inside             *)
(* `async with self._lock:`.                                               *)
(***************************************************************************)
\* The callback calls get_state, update_state, add_decision or add_alert and
\* reaches `async with self._lock:`.  When the lock is taken the coroutine waits
\* in acquire() like every other caller, until release() wakes it.
CallbackCallsStore(c) ==
    /\ pc[c] = "callback"
    /\ op[c].kind = "update_state"
    /\ subscribers[op[c].idx] \notin Raising
    /\ IF LockFree
       THEN UNCHANGED <<pc, op, lockWaiters>>
       ELSE /\ lockWaiters' = Append(lockWaiters, c)
            /\ pc' = [pc EXCEPT ![c] = "waiting"]
            /\ op' = [op EXCEPT ![c].kind = "reentrant"]
    /\ UNCHANGED <<state, heap, now, lockOwner, subscribers, snap, obsSnap, nDec,
                   nAlert, hist>>

ReenterNext ==
    \/ \E c \in Writers : \E v \in ScalarValues :
         CountedNotify(CallUpdateState(c, [battery_soc |-> v]))
    \/ \E o \in Observers :
         Len(subscribers) < MaxObservers /\ Uncounted(Subscribe(o))
    \/ \E c \in Writers : Uncounted(Wake(c))
    \/ \E c \in Writers : Uncounted(UpdateSetattr(c))
    \/ \E c \in Writers : Uncounted(UpdateTimestamp(c))
    \/ \E c \in Writers : Uncounted(NotifySubscriber(c))
    \/ \E c \in Writers : Uncounted(CallbackReturns(c))
    \/ \E c \in Writers : Uncounted(CallbackRaises(c))
    \/ \E c \in Writers : Uncounted(CallbackCallsStore(c))
    \/ \E c \in Writers : Uncounted(UpdateReturn(c))

ReenterSpec == Init /\ [][ReenterNext]_vars

\* The event loop runs every coroutine that is ready; a callback that calls the
\* store has made its choice when it was called.
ReenterFair ==
    \A c \in Writers :
       /\ WF_vars(Uncounted(Wake(c)))
       /\ WF_vars(Uncounted(UpdateSetattr(c)))
       /\ WF_vars(Uncounted(UpdateTimestamp(c)))
       /\ WF_vars(Uncounted(NotifySubscriber(c)))
       /\ WF_vars(Uncounted(CallbackReturns(c)))
       /\ WF_vars(Uncounted(CallbackRaises(c)))
       /\ WF_vars(Uncounted(UpdateReturn(c)))

FairReenterSpec == ReenterSpec /\ ReenterFair

\* C38: an observer that calls the store from inside its notification callback
\* does not deadlock: the callback returns and the update_state call that
\* triggered the notification eventually completes.
C38_ReentrantCallbackReturns ==
    \A c \in Writers : (op[c].kind = "reentrant") ~> (pc[c] = "idle")

====
